---- MODULE Spec2Model ----
(***************************************************************************)
(* LexData: the request session (LexData/wikidatasession.py), the claim    *)
(* value codec and the cache of property datatypes (LexData/utils.py,      *)
(* LexData/claim.py), get_or_create_lexeme and create_lexeme               *)
(* (LexData/__init__.py), Entity.addClaims (LexData/entity.py) and         *)
(* Lexeme.createSense and Lexeme.createForm (LexData/lexeme.py).           *)
(*                                                                         *)
(* Encoding of Python values.                                              *)
(*  - A str the code computes on, or that may be None (username, password, *)
(*    tokens, header values, datatype names), is a sequence of             *)
(*    one-character strings; None is the sequence <<"None">>, which is no  *)
(*    sequence of characters.                                              *)
(*  - A str literal that is only carried around (parameter names, action   *)
(*    names, error codes) is a TLA+ string.                                *)
(*  - A dict is a function whose domain is its set of keys.                *)
(*  - One HTTP round trip (transmit, receive, handle the response) is one  *)
(*    step; the recursive retry of get/post is the next step.              *)
(***************************************************************************)
EXTENDS Integers, Sequences, FiniteSets, TLC

VARIABLES
    username, password, token,      \* arguments of WikidataSession.__init__
    maxlag, CSRF_TOKEN, assertUser, \* fields of the session
    pc,                             \* where the client is
    op,                             \* top-level operation: "ctor" | "get" | "post"
    callerParams,                   \* parameter dict as the caller passed it
    data,                           \* parameter dict of the call in progress
    wire,                           \* round trips of the current operation
    sleeps,                         \* time.sleep durations of the current operation
    result,                         \* outcome of the last finished operation
    argClaim, argPropertyId, argValue, \* arguments of Claim(claim, propertyId, value)
    cpc,                            \* where the codec's caller is
    encoded,                        \* datatype given to buildDataValue and its outcome
    claim,                          \* outcome of Claim(...)
    pure,                           \* outcome of reading claim.pure_value
    numeric,                        \* outcome of reading claim.numeric_rank
    cache,                          \* lru_cache of getPropertyType: <<key, result>>, least recently used first
    resolution,                     \* the last call of getPropertyType and what it did
    known,                          \* property ids getPropertyType has returned a datatype for
    since,                          \* ids that returned a datatype since WatchedId last did
    lexCall,                        \* arguments of get_or_create_lexeme / create_lexeme
    lexicon,                        \* the lexemes on the server, by id
    search,                         \* the server's answer to wbsearchentities
    lpc,                            \* where the lexeme function is
    item,                           \* index of the search result under examination
    lexeme,                         \* the local Lexeme object
    pending,                        \* claims still to be added by __setClaims__
    requests,                       \* requests the lexeme function has issued
    lexOut,                         \* outcome of the lexeme function
    entity,                         \* the local Entity object, a dict
    addArg,                         \* argument of Entity.addClaims
    epc,                            \* where addClaims is
    position,                       \* index in the list of the claim __setClaims__ is at
    posts,                          \* POST round trips of addClaims, each with the index of its claim
    created,                        \* the claims the server has created for the entity
    entityOut,                      \* outcome of addClaims
    subCall,                        \* createSense / createForm and its arguments
    spc,                            \* where createSense / createForm is
    local,                          \* the local Lexeme object, a dict
    remote,                         \* ids of the senses and forms the server has created
    subOut                          \* outcome of createSense / createForm

sessionVars == <<username, password, token, maxlag, CSRF_TOKEN, assertUser,
                 pc, op, callerParams, data, wire, sleeps, result>>

codecVars == <<argClaim, argPropertyId, argValue, cpc, encoded, claim, pure, numeric>>

cacheVars == <<cache, resolution, known, since>>

lexVars == <<lexCall, lexicon, search, lpc, item, lexeme, pending, requests, lexOut>>

entityVars == <<entity, addArg, epc, position, posts, created, entityOut>>

subVars == <<subCall, spc, local, remote, subOut>>

-----------------------------------------------------------------------------
(* Bounds *)

\* maxlag answers the server gives within one top-level operation
MaxRetries == 2

\* properties with a page on the server, numbered 1..MaxProperties
MaxProperties == 130

\* longest list of claims given to Entity.addClaims
MaxClaims == 3

-----------------------------------------------------------------------------
(* Python values *)

None == <<"None">>
\* an attribute that was never assigned (no class default): reading it raises
Unset == <<"<unset>">>
AUTO == <<"_", "_", "A", "U", "T", "O", "_", "_">>

Has(d, k) == k \in DOMAIN d
SetItem(d, k, v) == [x \in DOMAIN d \cup {k} |-> IF x = k THEN v ELSE d[x]]
EmptyDict == <<>>

Digit(n) == CASE n = 0 -> "0" [] n = 1 -> "1" [] n = 2 -> "2" [] n = 3 -> "3"
              [] n = 4 -> "4" [] n = 5 -> "5" [] n = 6 -> "6" [] n = 7 -> "7"
              [] n = 8 -> "8" [] n = 9 -> "9"
DigitValue(c) == CASE c = "0" -> 0 [] c = "1" -> 1 [] c = "2" -> 2 [] c = "3" -> 3
                   [] c = "4" -> 4 [] c = "5" -> 5 [] c = "6" -> 6 [] c = "7" -> 7
                   [] c = "8" -> 8 [] c = "9" -> 9

\* str(n) for n >= 0
RECURSIVE str(_)
str(n) == IF n < 10 THEN <<Digit(n)>> ELSE Append(str(n \div 10), Digit(n % 10))

\* float(s) for a string of decimal digits
RECURSIVE float(_)
float(s) == IF Len(s) = 0 THEN 0
            ELSE 10 * float(SubSeq(s, 1, Len(s) - 1)) + DigitValue(s[Len(s)])

\* s.split(sep)[0]: the part of s before the first sep, all of s without one
RECURSIVE SplitFirst(_, _)
SplitFirst(s, sep) ==
    IF Len(s) = 0 \/ s[1] = sep THEN <<>>
    ELSE <<s[1]>> \o SplitFirst(Tail(s), sep)

Return(v) == [kind |-> "return", value |-> v]
Raise(type, args) == [kind |-> "raise", type |-> type, args |-> args]
Retry(sec) == [kind |-> "retry", sleepfor |-> sec]
NoResult == [kind |-> "none"]

-----------------------------------------------------------------------------
(* The server: HTTP responses *)

OK200 == 200
ErrorStatuses == {503}

Text(j) == [parses |-> TRUE, json |-> j]
NotJSON == [parses |-> FALSE]

ErrorBody(code) == [error |-> [code |-> code]]
LoginTokenBody(t) == [query |-> [tokens |-> [logintoken |-> t]]]
CsrfTokenBody(t) == [query |-> [tokens |-> [csrftoken |-> t]]]
LoginBody(l) == [login |-> l]

LoginTokens == {<<"L", "1">>, <<"L", "2">>}
CsrfTokens == {<<"C", "1">>, <<"C", "2">>}

LoginResults ==
    { [result |-> "Success"],
      [result |-> "Failed", reason |-> "Incorrect password"],
      [reason |-> "Unable to continue login"],
      [result |-> "Aborted"] }

Payloads ==
    {[batchcomplete |-> ""]}
    \cup {LoginTokenBody(t) : t \in LoginTokens}
    \cup {CsrfTokenBody(t) : t \in CsrfTokens}
    \cup {LoginBody(l) : l \in LoginResults}

NoHeaders == EmptyDict
RetryAfter(s) == ("retry-after" :> s)

Response(status, headers, text) ==
    [status_code |-> status, headers |-> headers, text |-> text]

MaxlagResponses ==
    { Response(OK200, NoHeaders, Text(ErrorBody("maxlag"))),
      Response(OK200, RetryAfter(<<"1", "2">>), Text(ErrorBody("maxlag"))),
      Response(503, NoHeaders, Text(ErrorBody("maxlag"))) }

OtherResponses ==
    {Response(OK200, NoHeaders, Text(j)) : j \in Payloads}
    \cup {Response(s, NoHeaders, Text(ErrorBody("badtoken"))) : s \in {OK200} \cup ErrorStatuses}
    \cup {Response(s, NoHeaders, NotJSON) : s \in {OK200} \cup ErrorStatuses}
    \cup {Response(s, NoHeaders, Text([batchcomplete |-> ""])) : s \in ErrorStatuses}

IsMaxlag(R) ==
    /\ R.text.parses
    /\ Has(R.text.json, "error")
    /\ R.text.json["error"]["code"] = "maxlag"

\* the responses the server may give now: it reports lag at most MaxRetries
\* times within one operation
Responses ==
    OtherResponses
    \cup (IF Len(sleeps) < MaxRetries THEN MaxlagResponses ELSE {})

-----------------------------------------------------------------------------
(* WikidataSession *)

DefaultMaxlag == 5
LoginMaxlag == 30
DefaultRetryAfter == 5

\* a sleep that ignores the retry-after header
sleepfor_IgnoresHeader(R) == DefaultRetryAfter

\* float(R.headers.get("retry-after", 5))
sleepfor(R) ==
    IF Has(R.headers, "retry-after") THEN float(R.headers["retry-after"])
    ELSE DefaultRetryAfter

\* WikidataSession.get, from the response on: what one invocation does
GetOutcome(R) ==
    IF ~R.text.parses THEN Raise("JSONDecodeError", <<>>)
    ELSE LET DATA == R.text.json IN
         IF R.status_code # OK200 \/ Has(DATA, "error") THEN
            IF ~Has(DATA, "error") THEN Raise("KeyError", <<"error">>)
            ELSE IF DATA["error"]["code"] = "maxlag" THEN Retry(sleepfor(R))
            ELSE Raise("Exception", <<"GET was unsuccessfull", R.status_code, R.text>>)
         ELSE Return(DATA)

\* a post that transmits the caller's token as it is
PostToken_NoSubstitution(d) == d

\* WikidataSession.post, before the request: the parameters it transmits
PostToken(d) ==
    IF Has(d, "token") /\ d["token"] = AUTO THEN SetItem(d, "token", CSRF_TOKEN) ELSE d

PostAssertUser(d) ==
    IF ~Has(d, "assertuser") /\ assertUser # None
    THEN SetItem(d, "assertuser", assertUser) ELSE d

\* a post that keeps a maxlag the caller supplied
PostMaxlag_KeepsCallers(d) ==
    IF Has(d, "maxlag") THEN d ELSE SetItem(d, "maxlag", str(maxlag))

PostMaxlag(d) == SetItem(d, "maxlag", str(maxlag))

PostData(d) == PostMaxlag(PostAssertUser(PostToken(d)))

\* reading self.CSRF_TOKEN on a session that never stored one
PostFailsEarly(d) == Has(d, "token") /\ d["token"] = AUTO /\ CSRF_TOKEN = Unset

\* a post that looks at the body before the status, as get does
PostOutcome_BodyFirst(R) ==
    IF ~R.text.parses THEN Raise("JSONDecodeError", <<>>)
    ELSE LET DATA == R.text.json IN
         IF Has(DATA, "error") THEN
            IF DATA["error"]["code"] = "maxlag" THEN Retry(sleepfor(R))
            ELSE Raise("PermissionError", <<"API returned error", DATA["error"]>>)
         ELSE IF R.status_code # OK200
         THEN Raise("Exception", <<"POST was unsuccessfull", R.status_code, R.text>>)
         ELSE Return(DATA)

\* WikidataSession.post, from the response on
PostOutcome(R) ==
    IF R.status_code # OK200
    THEN Raise("Exception", <<"POST was unsuccessfull", R.status_code, R.text>>)
    ELSE IF ~R.text.parses THEN Raise("JSONDecodeError", <<>>)
    ELSE LET DATA == R.text.json IN
         IF Has(DATA, "error") THEN
            IF DATA["error"]["code"] = "maxlag" THEN Retry(sleepfor(R))
            ELSE Raise("PermissionError", <<"API returned error", DATA["error"]>>)
         ELSE Return(DATA)

RoundTrip(method, params, R) == [method |-> method, params |-> params, R |-> R]

PARAMS_1 == [action |-> "query", meta |-> "tokens", type |-> "login", format |-> "json"]
PARAMS_2(LOGIN_TOKEN) ==
    [action |-> "login", lgname |-> username, lgpassword |-> password,
     format |-> "json", lgtoken |-> LOGIN_TOKEN]
PARAMS_3 == [action |-> "query", meta |-> "tokens", format |-> "json"]

\* login, line 58: DATA["query"]["tokens"]["logintoken"]
HasPath3(DATA, a, b, c) ==
    /\ Has(DATA, a)
    /\ Has(DATA[a], b)
    /\ Has(DATA[a][b], c)

\* login, lines 69-70, on the login POST's answer
LoginCheck(DATA) ==
    IF ~Has(DATA, "login") THEN Raise("AttributeError", <<"list", "get">>)
    ELSE IF Has(DATA["login"], "result") /\ DATA["login"]["result"] = "Success"
    THEN Return(DATA)
    ELSE IF ~Has(DATA["login"], "reason") THEN Raise("KeyError", <<"reason">>)
    ELSE Raise("PermissionError", <<"Login failed", DATA["login"]["reason"]>>)

\* a constructor that keeps the token fetched at login
CtorToken_KeepsFetched(csrf) ==
    IF csrf # Unset THEN csrf ELSE IF token # None THEN token ELSE csrf

\* __init__, lines 41-42
CtorToken(csrf) == IF token # None THEN token ELSE csrf

\* a constructor that asserts the whole username
CtorAssertUser_NoTruncate == username

\* __init__, lines 45-47
CtorAssertUser == IF username # None THEN SplitFirst(username, "@") ELSE None

Usernames == {<<"a">>, <<"a", "@", "b">>, <<"a", "@", "b", "@", "c">>}
Passwords == {<<"p", "w">>}
GivenTokens == {<<"T", "0">>}

SessionInit ==
    /\ username \in Usernames \cup {None}
    /\ password \in Passwords \cup {None}
    /\ token \in GivenTokens \cup {None}
    /\ maxlag = DefaultMaxlag
    /\ CSRF_TOKEN = Unset
    /\ assertUser = None
    /\ pc = "new"
    /\ op = "ctor"
    /\ callerParams = EmptyDict
    /\ data = EmptyDict
    /\ wire = <<>>
    /\ sleeps = <<>>
    /\ result = NoResult

\* the constructor raises: nothing after the failing statement runs
CtorRaise(exc) ==
    /\ pc' = "ctor_raised"
    /\ result' = exc
    /\ UNCHANGED <<CSRF_TOKEN, assertUser, maxlag, data, callerParams>>

\* __init__, lines 40-47
CtorFinish(csrf) ==
    /\ maxlag' = DefaultMaxlag
    /\ CSRF_TOKEN' = CtorToken(csrf)
    /\ assertUser' = CtorAssertUser
    /\ pc' = "ready"
    /\ result' = Return(EmptyDict)
    /\ UNCHANGED <<data, callerParams>>

\* __init__, lines 30-38, up to the first request of login
Construct ==
    /\ pc = "new"
    /\ IF username # None /\ password # None
       THEN /\ maxlag' = LoginMaxlag
            /\ pc' = "login_get1"
            /\ data' = PARAMS_1
            /\ callerParams' = PARAMS_1
            /\ UNCHANGED <<CSRF_TOKEN, assertUser, result>>
       ELSE /\ CSRF_TOKEN' = CtorToken(CSRF_TOKEN)
            /\ assertUser' = CtorAssertUser
            /\ pc' = "ready"
            /\ result' = Return(EmptyDict)
            /\ UNCHANGED <<maxlag, data, callerParams>>
    /\ UNCHANGED <<username, password, token, op, wire, sleeps>>
    /\ UNCHANGED <<codecVars, cacheVars, lexVars, entityVars, subVars>>

\* login, lines 57-58: one attempt of get(PARAMS_1)
LoginGetToken ==
    /\ pc = "login_get1"
    /\ \E R \in Responses :
        LET out == GetOutcome(R) IN
        /\ wire' = Append(wire, RoundTrip("GET", data, R))
        /\ CASE out.kind = "retry" ->
                  /\ sleeps' = Append(sleeps, out.sleepfor)
                  /\ UNCHANGED <<pc, data, callerParams, result, CSRF_TOKEN, assertUser, maxlag>>
             [] out.kind = "raise" ->
                  /\ CtorRaise(out)
                  /\ UNCHANGED sleeps
             [] out.kind = "return" ->
                  /\ UNCHANGED sleeps
                  /\ IF HasPath3(out.value, "query", "tokens", "logintoken")
                     THEN /\ pc' = "login_post"
                          /\ data' = PARAMS_2(out.value["query"]["tokens"]["logintoken"])
                          /\ callerParams' = data'
                          /\ UNCHANGED <<result, CSRF_TOKEN, assertUser, maxlag>>
                     ELSE CtorRaise(Raise("KeyError", <<"logintoken">>))
    /\ UNCHANGED <<username, password, token, op>>
    /\ UNCHANGED <<codecVars, cacheVars, lexVars, entityVars, subVars>>

\* login, lines 68-73: one attempt of post(PARAMS_2)
LoginPost ==
    /\ pc = "login_post"
    /\ \E R \in Responses :
        LET sent == PostData(data)
            out == PostOutcome(R) IN
        /\ wire' = Append(wire, RoundTrip("POST", sent, R))
        /\ CASE out.kind = "retry" ->
                  /\ sleeps' = Append(sleeps, out.sleepfor)
                  /\ data' = sent
                  /\ UNCHANGED <<pc, callerParams, result, CSRF_TOKEN, assertUser, maxlag>>
             [] out.kind = "raise" ->
                  /\ pc' = "ctor_raised"
                  /\ result' = out
                  /\ data' = sent
                  /\ UNCHANGED <<sleeps, callerParams, CSRF_TOKEN, assertUser, maxlag>>
             [] out.kind = "return" ->
                  /\ UNCHANGED sleeps
                  /\ LET chk == LoginCheck(out.value) IN
                     IF chk.kind = "raise"
                     THEN /\ pc' = "ctor_raised"
                          /\ result' = chk
                          /\ data' = sent
                          /\ UNCHANGED <<callerParams, CSRF_TOKEN, assertUser, maxlag>>
                     ELSE /\ pc' = "login_get3"
                          /\ data' = PARAMS_3
                          /\ callerParams' = PARAMS_3
                          /\ UNCHANGED <<result, CSRF_TOKEN, assertUser, maxlag>>
    /\ UNCHANGED <<username, password, token, op>>
    /\ UNCHANGED <<codecVars, cacheVars, lexVars, entityVars, subVars>>

\* login, lines 74-75, then __init__, lines 40-47: one attempt of get(PARAMS_3)
LoginGetCsrf ==
    /\ pc = "login_get3"
    /\ \E R \in Responses :
        LET out == GetOutcome(R) IN
        /\ wire' = Append(wire, RoundTrip("GET", data, R))
        /\ CASE out.kind = "retry" ->
                  /\ sleeps' = Append(sleeps, out.sleepfor)
                  /\ UNCHANGED <<pc, data, callerParams, result, CSRF_TOKEN, assertUser, maxlag>>
             [] out.kind = "raise" ->
                  /\ CtorRaise(out)
                  /\ UNCHANGED sleeps
             [] out.kind = "return" ->
                  /\ UNCHANGED sleeps
                  /\ IF HasPath3(out.value, "query", "tokens", "csrftoken")
                     THEN CtorFinish(out.value["query"]["tokens"]["csrftoken"])
                     ELSE CtorRaise(Raise("KeyError", <<"csrftoken">>))
    /\ UNCHANGED <<username, password, token, op>>
    /\ UNCHANGED <<codecVars, cacheVars, lexVars, entityVars, subVars>>

-----------------------------------------------------------------------------
(* Calls on the constructed session *)

GetParams ==
    { [action |-> "query", format |-> "json"],
      [action |-> "wbgetentities", format |-> "json", maxlag |-> <<"1">>] }

PostParams ==
    { [action |-> "wbcreateclaim", format |-> "json", token |-> AUTO],
      [action |-> "wbcreateclaim", format |-> "json", token |-> AUTO,
       assertuser |-> <<"z">>],
      [action |-> "wbeditentity", format |-> "json", token |-> <<"T", "9">>,
       maxlag |-> <<"1">>],
      [action |-> "purge", format |-> "json"] }

\* the caller invokes repo.get(params)
CallGet ==
    /\ pc = "ready"
    /\ \E params \in GetParams : data' = params /\ callerParams' = params
    /\ pc' = "get"
    /\ op' = "get"
    /\ wire' = <<>>
    /\ sleeps' = <<>>
    /\ result' = NoResult
    /\ UNCHANGED <<username, password, token, maxlag, CSRF_TOKEN, assertUser>>
    /\ UNCHANGED <<codecVars, cacheVars, lexVars, entityVars, subVars>>

\* the caller invokes repo.post(params)
CallPost ==
    /\ pc = "ready"
    /\ \E params \in PostParams : data' = params /\ callerParams' = params
    /\ pc' = "post"
    /\ op' = "post"
    /\ wire' = <<>>
    /\ sleeps' = <<>>
    /\ result' = NoResult
    /\ UNCHANGED <<username, password, token, maxlag, CSRF_TOKEN, assertUser>>
    /\ UNCHANGED <<codecVars, cacheVars, lexVars, entityVars, subVars>>

\* WikidataSession.get: one invocation
Get ==
    /\ pc = "get"
    /\ \E R \in Responses :
        LET out == GetOutcome(R) IN
        /\ wire' = Append(wire, RoundTrip("GET", data, R))
        /\ IF out.kind = "retry"
           THEN /\ sleeps' = Append(sleeps, out.sleepfor)
                /\ UNCHANGED <<pc, result>>
           ELSE /\ pc' = "ready"
                /\ result' = out
                /\ UNCHANGED sleeps
    /\ UNCHANGED <<username, password, token, maxlag, CSRF_TOKEN, assertUser, op,
                   callerParams, data>>
    /\ UNCHANGED <<codecVars, cacheVars, lexVars, entityVars, subVars>>

\* WikidataSession.post: one invocation
Post ==
    /\ pc = "post"
    /\ IF PostFailsEarly(data)
       THEN /\ pc' = "ready"
            /\ result' = Raise("AttributeError", <<"WikidataSession", "CSRF_TOKEN">>)
            /\ UNCHANGED <<data, wire, sleeps>>
       ELSE \E R \in Responses :
            LET sent == PostData(data)
                out == PostOutcome(R) IN
            /\ data' = sent
            /\ wire' = Append(wire, RoundTrip("POST", sent, R))
            /\ IF out.kind = "retry"
               THEN /\ sleeps' = Append(sleeps, out.sleepfor)
                    /\ UNCHANGED <<pc, result>>
               ELSE /\ pc' = "ready"
                    /\ result' = out
                    /\ UNCHANGED sleeps
    /\ UNCHANGED <<username, password, token, maxlag, CSRF_TOKEN, assertUser, op,
                   callerParams>>
    /\ UNCHANGED <<codecVars, cacheVars, lexVars, entityVars, subVars>>


-----------------------------------------------------------------------------
(* Python objects of the codec: a record whose one field is named by the    *)
(* object's type, type(x).__name__, and holds its value                    *)

Str(s) == [str |-> s]
Dict(d) == [dict |-> d]
IntObj(n) == [int |-> n]
\* a float is counted in units of 10^-7
FloatObj(m) == [float |-> m]
FloatUnit == 10000000
DateTime(y, mo, d, h, mi, sec, us, tz) ==
    [datetime |-> [year |-> y, month |-> mo, day |-> d, hour |-> h, minute |-> mi,
                   second |-> sec, microsecond |-> us, tzinfo |-> tz]]
NoneObj == [NoneType |-> None]
ListObj(l) == [list |-> l]
BoolObj(b) == [bool |-> b]
TupleObj(t) == [tuple |-> t]

PyTypes == {"str", "dict", "int", "float", "datetime", "NoneType", "list", "bool", "tuple"}
\* type(o).__name__
TypeOf(o) == CHOOSE t \in PyTypes : t \in DOMAIN o
Val(o) == o[TypeOf(o)]

\* bool(x)
Truthy(o) ==
    CASE TypeOf(o) = "NoneType" -> FALSE
      [] TypeOf(o) = "str" -> Len(Val(o)) > 0
      [] TypeOf(o) = "dict" -> DOMAIN Val(o) # {}
      [] TypeOf(o) = "list" -> Len(Val(o)) > 0
      [] TypeOf(o) \in {"int", "float"} -> Val(o) # 0
      [] TypeOf(o) = "bool" -> Val(o)
      [] OTHER -> TRUE

\* obj[key] for a str key
Subscript(obj, key) ==
    IF TypeOf(obj) = "dict"
    THEN IF Has(Val(obj), key) THEN Return(Val(obj)[key]) ELSE Raise("KeyError", <<key>>)
    ELSE Raise("TypeError", <<TypeOf(obj), "__getitem__">>)

\* n in decimal digits, zero-padded on the left to width w
RECURSIVE Pad(_, _)
Pad(n, w) == IF w <= 1 /\ n < 10 THEN <<Digit(n)>>
             ELSE Append(Pad(n \div 10, w - 1), Digit(n % 10))

\* "%+f" % x for an int or float x: sign, integer part, six decimals
FormatPlusF(x) ==
    LET units == IF TypeOf(x) = "int" THEN Val(x) * FloatUnit ELSE Val(x)
        a == IF units < 0 THEN -units ELSE units
        micro == (a + 5) \div 10
    IN  <<IF units < 0 THEN "-" ELSE "+">>
        \o str(micro \div 1000000) \o <<".">> \o Pad(micro % 1000000, 6)

IsDigits(s) == Len(s) > 0 /\ \A i \in 1..Len(s) : s[i] \in {"0", "1", "2", "3", "4", "5", "6", "7", "8", "9"}

\* the digits after the decimal point, in units of 10^-7 (seven are kept)
RECURSIVE Fraction(_, _)
Fraction(s, scale) ==
    IF Len(s) = 0 \/ scale = 0 THEN 0
    ELSE DigitValue(s[1]) * scale + Fraction(Tail(s), scale \div 10)

PointAt(s) == IF \E i \in 1..Len(s) : s[i] = "." THEN CHOOSE i \in 1..Len(s) : s[i] = "."
              ELSE Len(s) + 1

\* float(x) for a str, int or float x
PyFloat(x) ==
    IF TypeOf(x) = "float" THEN Return(x)
    ELSE IF TypeOf(x) = "int" THEN Return(FloatObj(Val(x) * FloatUnit))
    ELSE IF TypeOf(x) # "str" THEN Raise("TypeError", <<TypeOf(x), "float">>)
    ELSE LET signed == Len(Val(x)) > 0 /\ Val(x)[1] \in {"+", "-"}
             body == IF signed THEN Tail(Val(x)) ELSE Val(x)
             dot == PointAt(body)
             whole == SubSeq(body, 1, dot - 1)
             frac == SubSeq(body, dot + 1, Len(body))
             ok == /\ IsDigits(whole \o frac)
                   /\ \A i \in 1..Len(frac) : frac[i] # "."
             mag == float(whole) * FloatUnit + Fraction(frac, FloatUnit \div 10)
         IN IF ~ok THEN Raise("ValueError", <<"float", Val(x)>>)
            ELSE Return(FloatObj(IF signed /\ Val(x)[1] = "-" THEN -mag ELSE mag))

\* datetime.isoformat() after replace(hour=0, minute=0, second=0, microsecond=0)
IsoformatMidnight(dt) ==
    Pad(dt.year, 4) \o <<"-">> \o Pad(dt.month, 2) \o <<"-">> \o Pad(dt.day, 2)
    \o <<"T", "0", "0", ":", "0", "0", ":", "0", "0">>
    \o (IF dt.tzinfo = "UTC" THEN <<"+", "0", "0", ":", "0", "0">> ELSE <<>>)

-----------------------------------------------------------------------------
(* LexData/utils.py *)

S_wikibase_lexeme == <<"w", "i", "k", "i", "b", "a", "s", "e", "-", "l", "e", "x", "e", "m", "e">>
S_wikibase_form == <<"w", "i", "k", "i", "b", "a", "s", "e", "-", "f", "o", "r", "m">>
S_wikibase_sense == <<"w", "i", "k", "i", "b", "a", "s", "e", "-", "s", "e", "n", "s", "e">>
S_wikibase_item == <<"w", "i", "k", "i", "b", "a", "s", "e", "-", "i", "t", "e", "m">>
S_wikibase_property == <<"w", "i", "k", "i", "b", "a", "s", "e", "-", "p", "r", "o", "p", "e", "r", "t", "y">>
S_string == <<"s", "t", "r", "i", "n", "g">>
S_tabular_data == <<"t", "a", "b", "u", "l", "a", "r", "-", "d", "a", "t", "a">>
S_geo_shape == <<"g", "e", "o", "-", "s", "h", "a", "p", "e">>
S_url == <<"u", "r", "l">>
S_musical_notation == <<"m", "u", "s", "i", "c", "a", "l", "-", "n", "o", "t", "a", "t", "i", "o", "n">>
S_math == <<"m", "a", "t", "h">>
S_commonsMedia == <<"c", "o", "m", "m", "o", "n", "s", "M", "e", "d", "i", "a">>
S_monolingualtext == <<"m", "o", "n", "o", "l", "i", "n", "g", "u", "a", "l", "t", "e", "x", "t">>
S_globe_coordinate == <<"g", "l", "o", "b", "e", "-", "c", "o", "o", "r", "d", "i", "n", "a", "t", "e">>
S_quantity == <<"q", "u", "a", "n", "t", "i", "t", "y">>
S_time == <<"t", "i", "m", "e">>
S_external_id == <<"e", "x", "t", "e", "r", "n", "a", "l", "-", "i", "d">>
S_entity_schema == <<"e", "n", "t", "i", "t", "y", "-", "s", "c", "h", "e", "m", "a">>
S_wikibase_entity == <<"w", "i", "k", "i", "b", "a", "s", "e", "-", "e", "n", "t", "i", "t", "y">>
S_wikibase_entityid == <<"w", "i", "k", "i", "b", "a", "s", "e", "-", "e", "n", "t", "i", "t", "y", "i", "d">>
S_globecoordinate == <<"g", "l", "o", "b", "e", "c", "o", "o", "r", "d", "i", "n", "a", "t", "e">>
GregorianURI == <<"http://www.wikidata.org/entity/Q1985727">>

EntityDatatypes ==
    {S_wikibase_lexeme, S_wikibase_form, S_wikibase_sense, S_wikibase_item,
     S_wikibase_property}
StringDatatypes ==
    {S_string, S_tabular_data, S_geo_shape, S_url, S_musical_notation, S_math,
     S_commonsMedia}

DataValue(v, t) == [value |-> v, type |-> t]
\* the mismatch reported with the wrong error class
CanNotConvert_ValueError(v, datatype) == Raise("ValueError", <<"Can not convert type", TypeOf(v), datatype>>)

CanNotConvert(v, datatype) == Raise("TypeError", <<"Can not convert type", TypeOf(v), datatype>>)

\* the entity kind cut from the wrong place: datatype[8:]
EntityKind_OffByOne(datatype) == SubSeq(datatype, 9, Len(datatype))

\* datatype[9:]
EntityKind(datatype) == SubSeq(datatype, 10, Len(datatype))

buildDataValue(datatype, v) ==
    IF datatype \in EntityDatatypes THEN
        IF TypeOf(v) = "dict" THEN Return(DataValue(v, S_wikibase_entity))
        ELSE IF TypeOf(v) = "str" THEN
            Return(DataValue(Dict(("entity-type" :> Str(EntityKind(datatype)))
                                  @@ ("id" :> v)),
                             S_wikibase_entity))
        ELSE CanNotConvert(v, datatype)
    ELSE IF datatype \in StringDatatypes THEN
        IF TypeOf(v) = "dict" THEN Return(DataValue(v, S_string))
        ELSE IF TypeOf(v) = "str" THEN Return(DataValue(Dict([value |-> v]), S_string))
        ELSE CanNotConvert(v, datatype)
    ELSE IF datatype = S_monolingualtext THEN
        IF TypeOf(v) = "dict" THEN Return(DataValue(v, S_monolingualtext))
        ELSE CanNotConvert(v, datatype)
    ELSE IF datatype = S_globe_coordinate THEN
        IF TypeOf(v) = "dict" THEN Return(DataValue(v, S_globecoordinate))
        ELSE CanNotConvert(v, datatype)
    ELSE IF datatype = S_quantity THEN
        IF TypeOf(v) = "dict" THEN Return(DataValue(v, S_quantity))
        ELSE IF TypeOf(v) \in {"int", "float"} THEN
            Return(DataValue(Dict([amount |-> Str(FormatPlusF(v)), unit |-> Str(<<"1">>)]),
                             S_time))
        ELSE CanNotConvert(v, datatype)
    ELSE IF datatype = S_time THEN
        IF TypeOf(v) = "dict" THEN Return(DataValue(v, S_time))
        ELSE IF TypeOf(v) = "datetime" THEN
            Return(DataValue(
                Dict([time |-> Str(<<"+">> \o IsoformatMidnight(Val(v)) \o <<"Z">>),
                      timezone |-> IntObj(0),
                      before |-> IntObj(0),
                      after |-> IntObj(0),
                      precision |-> IntObj(11),
                      calendarmodel |-> Str(GregorianURI)]),
                S_time))
        ELSE CanNotConvert(v, datatype)
    ELSE Raise("NotImplementedError", <<"Datatype not implemented", datatype>>)

\* the datatype each property's page declares on the server
Schema ==
    (<<"P", "5", "1", "8", "8">> :> S_wikibase_lexeme)
     @@ (<<"P", "5", "1", "8", "9">> :> S_wikibase_form)
     @@ (<<"P", "5", "9", "7", "3">> :> S_wikibase_sense)
     @@ (<<"P", "5", "1", "3", "7">> :> S_wikibase_item)
     @@ (<<"P", "1", "6", "8", "7">> :> S_wikibase_property)
     @@ (<<"P", "2", "0", "9", "3">> :> S_string)
     @@ (<<"P", "4", "1", "5", "0">> :> S_tabular_data)
     @@ (<<"P", "3", "8", "9", "6">> :> S_geo_shape)
     @@ (<<"P", "8", "5", "6">> :> S_url)
     @@ (<<"P", "6", "8", "8", "3">> :> S_musical_notation)
     @@ (<<"P", "2", "5", "3", "4">> :> S_math)
     @@ (<<"P", "1", "8">> :> S_commonsMedia)
     @@ (<<"P", "5", "8", "3", "1">> :> S_monolingualtext)
     @@ (<<"P", "6", "2", "5">> :> S_globe_coordinate)
     @@ (<<"P", "2", "0", "2", "1">> :> S_quantity)
     @@ (<<"P", "5", "8", "0">> :> S_time)
     @@ (<<"P", "2", "1", "4">> :> S_external_id)
     @@ (<<"P", "1", "2", "8", "6", "1">> :> S_entity_schema)

\* getPropertyType: the datatype read from the property's page; a property
\* without page has no revisions to read
getPropertyType(propertyId) ==
    IF propertyId \in DOMAIN Schema THEN Return(Schema[propertyId])
    ELSE Raise("KeyError", <<"revisions">>)

buildSnak(propertyId, v) ==
    LET datatype == getPropertyType(propertyId) IN
    IF datatype.kind = "raise" THEN datatype
    ELSE LET datavalue == buildDataValue(datatype.value, v) IN
         IF datavalue.kind = "raise" THEN datavalue
         ELSE Return([snaktype |-> "value", property |-> propertyId,
                      datavalue |-> datavalue.value, datatype |-> datatype.value])

-----------------------------------------------------------------------------
(* LexData/claim.py *)

\* Claim.__init__
Claim(c, propertyId, v) ==
    IF TypeOf(c) = "dict" /\ ~Truthy(propertyId) /\ ~Truthy(v) THEN Return(Val(c))
    ELSE IF c = NoneObj /\ Truthy(propertyId) /\ Truthy(v) THEN
        LET snak == buildSnak(Val(propertyId), v) IN
        IF snak.kind = "raise" THEN snak
        ELSE Return([mainsnak |-> snak.value, rank |-> "normal"])
    ELSE Raise("TypeError", <<"Claim() received an invalid combination of arguments">>)

\* Claim.value
ClaimValue(self) == self.mainsnak.datavalue.value

\* Claim.type
ClaimType(self) == self.mainsnak.datatype

\* Claim.rank
ClaimRank(self) == self.rank

\* a numeric_rank whose comparisons are in the order of the integers it
\* returns, with "preferred" and "deprecated" exchanged
numeric_rank_Exchanged(self) ==
    IF ClaimRank(self) = "normal" THEN Return(IntObj(0))
    ELSE IF ClaimRank(self) = "deprecated" THEN Return(IntObj(1))
    ELSE IF ClaimRank(self) = "preferred" THEN Return(IntObj(-1))
    ELSE Raise("NotImplementedError", <<"Unknown or invalid rank", ClaimRank(self)>>)

\* Claim.numeric_rank
numeric_rank(self) ==
    IF ClaimRank(self) = "normal" THEN Return(IntObj(0))
    ELSE IF ClaimRank(self) = "preferred" THEN Return(IntObj(1))
    ELSE IF ClaimRank(self) = "deprecated" THEN Return(IntObj(-1))
    ELSE Raise("NotImplementedError", <<"Unknown or invalid rank", ClaimRank(self)>>)

\* Claim.pure_value
pure_value(self) ==
    LET v == ClaimValue(self)
        vtype == ClaimType(self)
    IN  IF vtype = S_wikibase_entityid THEN Subscript(v, "id")
        ELSE IF vtype = S_string THEN Return(v)
        ELSE IF vtype = S_monolingualtext THEN Subscript(v, "text")
        ELSE IF vtype = S_quantity THEN
            LET amount == Subscript(v, "amount") IN
            IF amount.kind = "raise" THEN amount ELSE PyFloat(amount.value)
        ELSE IF vtype = S_time THEN Subscript(v, "time")
        ELSE IF vtype = S_globecoordinate THEN
            LET lat == Subscript(v, "latitude")
                lon == Subscript(v, "longitude")
                flat == IF lat.kind = "raise" THEN lat ELSE PyFloat(lat.value)
                flon == IF lon.kind = "raise" THEN lon ELSE PyFloat(lon.value)
            IN  IF flat.kind = "raise" THEN flat
                ELSE IF flon.kind = "raise" THEN flon
                ELSE Return(TupleObj(<<flat.value, flon.value>>))
        ELSE Raise("NotImplementedError", <<>>)

-----------------------------------------------------------------------------
(* The codec's caller *)

Datatypes ==
    EntityDatatypes \cup StringDatatypes
    \cup {S_monolingualtext, S_globe_coordinate, S_quantity, S_time,
          S_external_id, S_entity_schema}

PropertyIds == DOMAIN Schema \cup {<<"P", "0">>}

EntityPayload ==
    Dict(("entity-type" :> Str(<<"i", "t", "e", "m">>)) @@ ("id" :> Str(<<"Q", "4", "2">>))
         @@ ("numeric-id" :> IntObj(42)))
TextPayload == Dict([text |-> Str(<<"h", "i">>), language |-> Str(<<"e", "n">>)])

QuantityPayload == Dict([amount |-> Str(<<"+", "6">>), unit |-> Str(<<"1">>)])
CoordinatePayload == Dict([latitude |-> FloatObj(525000000), longitude |-> IntObj(13)])
TimePayload ==
    Dict([time |-> Str(<<"+", "2", "0", "2", "1", "-", "0", "3", "-", "0", "4",
                         "T", "0", "0", ":", "0", "0", ":", "0", "0", "Z">>),
          timezone |-> IntObj(0), before |-> IntObj(0), after |-> IntObj(0),
          precision |-> IntObj(11), calendarmodel |-> Str(GregorianURI)])
Values ==
    { Str(<<"Q", "4", "2">>), Str(<<"L", "2", "-", "F", "1">>), Str(<<"h", "t", "t", "p", ":", "/", "/", "e", ".", "x", "/">>), Str(<<>>),
      EntityPayload, TextPayload, Dict(EmptyDict),
      QuantityPayload, CoordinatePayload,
      IntObj(6), IntObj(0), IntObj(-3), FloatObj(15000000), FloatObj(3),
      DateTime(2021, 3, 4, 13, 45, 0, 0, "None"),
      DateTime(2021, 3, 4, 0, 0, 0, 0, "None"),
      DateTime(2021, 3, 4, 13, 45, 0, 0, "UTC"),
      NoneObj, ListObj(<<>>), BoolObj(TRUE) }

\* a claim as the server sends it
Received(propertyId, datatype, wiretype, v, rank, id) ==
    [mainsnak |-> [snaktype |-> "value", property |-> propertyId,
                   datavalue |-> DataValue(v, wiretype), datatype |-> datatype],
     rank |-> rank, id |-> Str(id)]

\* the wire type of a value the server could not deserialize
S_bad == <<"b", "a", "d">>

ReceivedClaims ==
    { Received(<<"P", "5", "8", "3", "1">>, S_monolingualtext, S_monolingualtext,
               TextPayload, "normal", <<"L", "2", "$", "1">>),
      Received(<<"P", "5", "1", "3", "7">>, S_wikibase_item, S_wikibase_entityid,
               EntityPayload, "preferred", <<"L", "2", "$", "2">>),
      Received(<<"P", "2", "0", "9", "3">>, S_string, S_string,
               Str(<<"h", "i">>), "normal", <<"L", "2", "$", "3">>),
      Received(<<"P", "8", "5", "6">>, S_url, S_string,
               Str(<<"h", "t", "t", "p", ":", "/", "/", "e", ".", "x", "/">>), "normal", <<"L", "2", "$", "4">>),
      Received(<<"P", "2", "1", "4">>, S_external_id, S_string,
               Str(<<"1", "1", "3">>), "normal", <<"L", "2", "$", "5">>),
      Received(<<"P", "6", "2", "5">>, S_globe_coordinate, S_globecoordinate,
               CoordinatePayload, "normal", <<"L", "2", "$", "6">>),
      Received(<<"P", "2", "0", "2", "1">>, S_quantity, S_quantity,
               QuantityPayload, "deprecated", <<"L", "2", "$", "7">>),
      Received(<<"P", "5", "8", "0">>, S_time, S_time,
               TimePayload, "best", <<"L", "2", "$", "8">>),
      Received(<<"P", "2", "0", "9", "3">>, S_string, S_bad,
               Str(<<"x">>), "", <<"L", "2", "$", "9">>) }

CodecIdle ==
    /\ argClaim = NoneObj
    /\ argPropertyId = NoneObj
    /\ argValue = NoneObj
    /\ cpc = "off"
    /\ encoded = NoResult
    /\ claim = NoResult
    /\ pure = NoResult
    /\ numeric = NoResult

\* an anonymous session, constructed, for the codec's lookups
SessionIdle ==
    /\ username = None /\ password = None /\ token = None
    /\ maxlag = DefaultMaxlag
    /\ CSRF_TOKEN = Unset
    /\ assertUser = None
    /\ pc = "codec"
    /\ op = "ctor"
    /\ callerParams = EmptyDict
    /\ data = EmptyDict
    /\ wire = <<>>
    /\ sleeps = <<>>
    /\ result = NoResult

CodecInit ==
    /\ SessionIdle
    /\ argClaim \in {NoneObj} \cup {Dict(c) : c \in ReceivedClaims}
    /\ argPropertyId \in {NoneObj} \cup {Str(p) : p \in PropertyIds}
    /\ argValue \in Values
    /\ cpc = "args"
    /\ encoded = NoResult
    /\ claim = NoResult
    /\ pure = NoResult
    /\ numeric = NoResult

\* the caller invokes buildDataValue(datatype, value)
Encode ==
    /\ cpc = "args"
    /\ \E datatype \in Datatypes :
          encoded' = [datatype |-> datatype, out |-> buildDataValue(datatype, argValue)]
    /\ cpc' = "encoded"
    /\ UNCHANGED <<argClaim, argPropertyId, argValue, claim, pure, numeric>>
    /\ UNCHANGED <<sessionVars, cacheVars, lexVars, entityVars, subVars>>

\* the caller invokes Claim(claim, propertyId, value)
NewClaim ==
    /\ cpc = "args"
    /\ claim' = Claim(argClaim, argPropertyId, argValue)
    /\ cpc' = "claim"
    /\ UNCHANGED <<argClaim, argPropertyId, argValue, encoded, pure, numeric>>
    /\ UNCHANGED <<sessionVars, cacheVars, lexVars, entityVars, subVars>>

\* the caller reads claim.pure_value
PureValue ==
    /\ cpc = "claim"
    /\ claim.kind = "return"
    /\ pure' = pure_value(claim.value)
    /\ cpc' = "pure"
    /\ UNCHANGED <<argClaim, argPropertyId, argValue, encoded, claim, numeric>>
    /\ UNCHANGED <<sessionVars, cacheVars, lexVars, entityVars, subVars>>

\* the caller reads claim.numeric_rank
NumericRank ==
    /\ cpc = "claim"
    /\ claim.kind = "return"
    /\ numeric' = numeric_rank(claim.value)
    /\ cpc' = "rank"
    /\ UNCHANGED <<argClaim, argPropertyId, argValue, encoded, claim, pure>>
    /\ UNCHANGED <<sessionVars, cacheVars, lexVars, entityVars, subVars>>

-----------------------------------------------------------------------------
(* The memoized getPropertyType: @functools.lru_cache() keeps the results  *)
(* of the most recently used keys, maxsize of them.  Property ids are      *)
(* numbered here; number 0 has no page on the server.                      *)

\* functools.lru_cache(maxsize=128), the default the decorator is used with
lru_maxsize == 128

NoPage == 0
WatchedId == 1

\* the datatype the page of property n declares
DeclaredType(n) ==
    IF n % 3 = 0 THEN S_string ELSE IF n % 3 = 1 THEN S_wikibase_item ELSE S_external_id

\* the body of getPropertyType: the schema fetch and the reading of its answer
FetchPropertyType(n, answered) ==
    IF ~answered THEN Raise("Exception", <<"GET was unsuccessfull">>)
    ELSE IF n = NoPage THEN Raise("KeyError", <<"revisions">>)
    ELSE Return(DeclaredType(n))

CacheKeys(c) == {c[i][1] : i \in 1..Len(c)}
CacheIndex(c, n) == CHOOSE i \in 1..Len(c) : c[i][1] = n
CacheWithout(c, i) == SubSeq(c, 1, i - 1) \o SubSeq(c, i + 1, Len(c))

\* a cache that is full drops the entry used last, not the one used least
\* recently
lru_store_EvictsNewest(c, n, v) ==
    IF Len(c) >= lru_maxsize THEN Append(SubSeq(c, 1, Len(c) - 1), <<n, v>>)
    ELSE Append(c, <<n, v>>)

\* lru_cache on a miss that returned: the result is stored as the most
\* recently used entry; a full cache first drops the least recently used one
lru_store(c, n, v) ==
    IF Len(c) >= lru_maxsize THEN Append(Tail(c), <<n, v>>)
    ELSE Append(c, <<n, v>>)

\* lru_cache on a hit: the entry becomes the most recently used one
lru_touch(c, n) == Append(CacheWithout(c, CacheIndex(c, n)), c[CacheIndex(c, n)])

CacheIdle ==
    /\ cache = <<>>
    /\ resolution = NoResult
    /\ known = {}
    /\ since = {}

\* the ids the caller asks for: the one without page, the watched one, and
\* the next one never asked for
Requested == {NoPage, WatchedId} \cup {n \in 2..MaxProperties : n - 1 \in known /\ n \notin known}

\* getPropertyType(n), memoized
Resolve ==
    \E n \in Requested, answered \in BOOLEAN :
        LET hit == n \in CacheKeys(cache)
            out == IF hit THEN Return(cache[CacheIndex(cache, n)][2])
                   ELSE FetchPropertyType(n, answered)
        IN  /\ cache' = IF hit THEN lru_touch(cache, n)
                        ELSE IF out.kind = "return" THEN lru_store(cache, n, out.value)
                        ELSE cache
            /\ resolution' = [propertyId |-> n, out |-> out, fetched |-> ~hit,
                              known |-> n \in known,
                              others |-> Cardinality(since \ {n}),
                              cacheBefore |-> cache]
            /\ known' = IF out.kind = "return" THEN known \cup {n} ELSE known
            /\ since' = IF out.kind # "return" THEN since
                        ELSE IF n = WatchedId THEN {}
                        ELSE since \cup {n}
            /\ UNCHANGED <<sessionVars, codecVars, lexVars, entityVars, subVars>>

-----------------------------------------------------------------------------
(* LexData/__init__.py: get_or_create_lexeme, create_lexeme and the Lexeme *)
(* they build.  The server answers every request of repo.get and repo.post *)
(* with HTTP 200 and no error.                                             *)

\* Language(short, qid)
Language(short, qid) == [short |-> short, qid |-> qid]
en == Language("en", "Q1860")

NoClaims == "None"

\* the lexeme the server holds under an id
ServerLexeme(id, lemma, short, catLex) ==
    [id |-> id, lemmas |-> [lang |-> short, value |-> lemma], lexicalCategory |-> catLex]

\* Lexeme.getLex: PARAMS
GetLexParams(idLex) == [action |-> "wbgetentities", format |-> "json", ids |-> idLex]

\* get_or_create_lexeme: PARAMS
SearchParams(lemma, lang) ==
    [action |-> "wbsearchentities", language |-> lang.short, type |-> "lexeme",
     search |-> lemma, format |-> "json"]

\* create_lexeme: PARAMS, with data_lex before json.dumps
CreateParams(lemma, lang, catLex) ==
    [action |-> "wbeditentity", format |-> "json", bot |-> "1", new |-> "lexeme",
     token |-> "__AUTO__",
     data |-> [type |-> "lexeme",
               lemmas |-> [lang |-> lang.short, value |-> lemma],
               language |-> lang.qid, lexicalCategory |-> catLex, forms |-> <<>>]]

\* idItem[1:] for the item ids in use
NumericId(idItem) == CASE idItem = "Q100" -> "100" [] idItem = "Q5" -> "5"

\* Lexeme.__setClaim__: PARAMS, with claim_value before json.dumps
SetClaimParams(parent, idProp, idItem) ==
    [action |-> "wbcreateclaim", format |-> "json", entity |-> parent,
     snaktype |-> "value", bot |-> "1", property |-> idProp,
     value |-> ("entity-type" :> "item") @@ ("numeric-id" :> NumericId(idItem)),
     token |-> "__AUTO__"]

Request(method, params) == [method |-> method, params |-> params]

\* the id the server gives the next new lexeme
NewLexemeId == "L3"

\* the condition of the loop of get_or_create_lexeme, left to right
MatchesText(it) == it.match.text = lexCall.lemma /\ it.match.language = lexCall.lang.short

\* claims.items() and the values of each, in order
RECURSIVE Flatten(_)
Flatten(claims) ==
    IF Len(claims) = 0 THEN <<>>
    ELSE [k \in 1..Len(claims[1][2]) |-> <<claims[1][1], claims[1][2][k]>>]
         \o Flatten(Tail(claims))

SearchItems ==
    [id : {"L1", "L2"},
     match : [text : {"first", "firstly"}, language : {"en", "de"}]]

SearchAnswers ==
    {<<>>} \cup {<<a>> : a \in SearchItems} \cup {<<a, b>> : a \in SearchItems, b \in SearchItems}

Categories == {"Q1084", "Q24905"}

ClaimArguments == {NoClaims, <<>>, <<<<"P7", <<"Q100">>>>>>, <<<<"P7", <<"Q100", "Q5">>>>>>}

LexIdle ==
    /\ lexCall = NoResult
    /\ lexicon = EmptyDict
    /\ search = <<>>
    /\ lpc = "off"
    /\ item = 0
    /\ lexeme = NoResult
    /\ pending = <<>>
    /\ requests = <<>>
    /\ lexOut = NoResult

LexInit ==
    /\ \E fn \in {"get_or_create_lexeme", "create_lexeme"}, catLex \in Categories,
          claims \in ClaimArguments :
          /\ fn = "get_or_create_lexeme" => claims = NoClaims
          /\ lexCall = [fn |-> fn, lemma |-> "first", lang |-> en, catLex |-> catLex,
                        claims |-> claims]
          /\ lpc = IF fn = "get_or_create_lexeme" THEN "search" ELSE "create"
    /\ \E c1 \in Categories, c2 \in Categories :
          lexicon = ("L1" :> ServerLexeme("L1", "first", "en", c1))
                    @@ ("L2" :> ServerLexeme("L2", "first", "en", c2))
    /\ search \in (IF lexCall.fn = "get_or_create_lexeme" THEN SearchAnswers ELSE {<<>>})
    /\ item = 0
    /\ lexeme = NoResult
    /\ pending = <<>>
    /\ requests = <<>>
    /\ lexOut = NoResult

\* get_or_create_lexeme: DATA = repo.get(PARAMS)
SearchLexemes ==
    /\ lpc = "search"
    /\ requests' = Append(requests, Request("GET", SearchParams(lexCall.lemma, lexCall.lang)))
    /\ item' = 1
    /\ lpc' = "loop"
    /\ UNCHANGED <<lexCall, lexicon, search, lexeme, pending, lexOut>>
    /\ UNCHANGED <<sessionVars, codecVars, cacheVars, entityVars, subVars>>

\* get_or_create_lexeme: one pass of `for item in DATA["search"]`; the third
\* operand of the condition builds Lexeme(repo, item["id"]), one request
ExamineItem ==
    /\ lpc = "loop"
    /\ item <= Len(search)
    /\ LET it == search[item] IN
       IF ~MatchesText(it)
       THEN /\ item' = item + 1
            /\ UNCHANGED <<requests, lpc>>
       ELSE /\ requests' = Append(requests, Request("POST", GetLexParams(it.id)))
            /\ IF lexCall.catLex = lexicon[it.id].lexicalCategory
               THEN lpc' = "found" /\ UNCHANGED item
               ELSE item' = item + 1 /\ UNCHANGED lpc
    /\ UNCHANGED <<lexCall, lexicon, search, lexeme, pending, lexOut>>
    /\ UNCHANGED <<sessionVars, codecVars, cacheVars, entityVars, subVars>>

\* get_or_create_lexeme: return Lexeme(repo, idLex)
ReturnFound ==
    /\ lpc = "found"
    /\ requests' = Append(requests, Request("POST", GetLexParams(search[item].id)))
    /\ lexeme' = lexicon[search[item].id]
    /\ lexOut' = Return(lexicon[search[item].id])
    /\ lpc' = "done"
    /\ UNCHANGED <<lexCall, lexicon, search, item, pending>>
    /\ UNCHANGED <<sessionVars, codecVars, cacheVars, entityVars, subVars>>

\* get_or_create_lexeme: the loop is over, return create_lexeme(repo, lemma,
\* lang, catLex)
NotFound ==
    /\ lpc = "loop"
    /\ item > Len(search)
    /\ lpc' = "create"
    /\ UNCHANGED <<lexCall, lexicon, search, item, lexeme, pending, requests, lexOut>>
    /\ UNCHANGED <<sessionVars, codecVars, cacheVars, entityVars, subVars>>

\* create_lexeme: DATA = repo.post(PARAMS); idLex = DATA["entity"]["id"]
PostNewLexeme ==
    /\ lpc = "create"
    /\ requests' = Append(requests,
                          Request("POST", CreateParams(lexCall.lemma, lexCall.lang, lexCall.catLex)))
    /\ lexicon' = (NewLexemeId :> ServerLexeme(NewLexemeId, lexCall.lemma,
                                               lexCall.lang.short, lexCall.catLex))
                  @@ lexicon
    /\ lpc' = "created"
    /\ UNCHANGED <<lexCall, search, item, lexeme, pending, lexOut>>
    /\ UNCHANGED <<sessionVars, codecVars, cacheVars, entityVars, subVars>>

\* create_lexeme: lexeme = Lexeme(repo, idLex)
FetchNewLexeme ==
    /\ lpc = "created"
    /\ requests' = Append(requests, Request("POST", GetLexParams(NewLexemeId)))
    /\ lexeme' = lexicon[NewLexemeId]
    /\ lpc' = "claims"
    /\ UNCHANGED <<lexCall, lexicon, search, item, pending, lexOut>>
    /\ UNCHANGED <<sessionVars, codecVars, cacheVars, entityVars, subVars>>

\* create_lexeme: lexeme.createClaims(claims), up to the first request of
\* Lexeme.__setClaims__
CreateClaims ==
    /\ lpc = "claims"
    /\ IF lexCall.claims = NoClaims
       THEN /\ lexOut' = Raise("AttributeError", <<"NoneType", "items">>)
            /\ lpc' = "done"
            /\ UNCHANGED pending
       ELSE /\ pending' = Flatten(lexCall.claims)
            /\ lpc' = "setclaims"
            /\ UNCHANGED lexOut
    /\ UNCHANGED <<lexCall, lexicon, search, item, lexeme, requests>>
    /\ UNCHANGED <<sessionVars, codecVars, cacheVars, entityVars, subVars>>

\* Lexeme.__setClaims__: one self.__setClaim__(parent, cle, value)
SetLexemeClaim ==
    /\ lpc = "setclaims"
    /\ pending # <<>>
    /\ requests' = Append(requests,
                          Request("POST", SetClaimParams(lexeme.id, pending[1][1], pending[1][2])))
    /\ pending' = Tail(pending)
    /\ UNCHANGED <<lexCall, lexicon, search, lpc, item, lexeme, lexOut>>
    /\ UNCHANGED <<sessionVars, codecVars, cacheVars, entityVars, subVars>>

\* Lexeme.__setClaims__: self.getLex(self["id"]) after the loop; create_lexeme
\* returns the lexeme
RefreshAndReturn ==
    /\ lpc = "setclaims"
    /\ pending = <<>>
    /\ requests' = Append(requests, Request("POST", GetLexParams(lexeme.id)))
    /\ lexeme' = lexicon[lexeme.id]
    /\ lexOut' = Return(lexicon[lexeme.id])
    /\ lpc' = "done"
    /\ UNCHANGED <<lexCall, lexicon, search, item, pending>>
    /\ UNCHANGED <<sessionVars, codecVars, cacheVars, entityVars, subVars>>

-----------------------------------------------------------------------------
(* LexData/entity.py: Entity.addClaims with a list of claims, through       *)
(* __setClaims__, or with a dict of id strings, through __createClaims__.   *)

\* json.dumps: the text of a value
json_dumps(o) == [json |-> o]

EntityId == <<"L", "2">>

\* Entity.id
Id(self) == Val(self["id"])

\* Claim.property
ClaimProperty(self) == self.mainsnak.property

\* iterating a value: a list gives its elements, a dict its keys
RECURSIVE KeysOf(_)
KeysOf(K) ==
    IF K = {} THEN <<>>
    ELSE LET k == CHOOSE x \in K : TRUE IN <<Str(<<k>>)>> \o KeysOf(K \ {k})
Iterate(v) == IF TypeOf(v) = "list" THEN Val(v) ELSE KeysOf(DOMAIN Val(v))

\* Entity.claims
claims(self) ==
    LET c == IF Has(self, "claims") THEN self["claims"] ELSE Dict(EmptyDict) IN
    IF TypeOf(c) = "list" THEN
        IF Len(Val(c)) = 0 THEN Return(Dict(EmptyDict))
        ELSE Raise("AttributeError", <<"list", "items">>)
    ELSE LET built == [k \in DOMAIN Val(c) |->
                         LET v == Iterate(Val(c)[k]) IN
                         [i \in 1..Len(v) |-> Claim(v[i], NoneObj, NoneObj)]]
         IN  IF \E k \in DOMAIN built : \E i \in 1..Len(built[k]) : built[k][i].kind = "raise"
             THEN Raise("TypeError", <<"Claim() received an invalid combination of arguments">>)
             ELSE Return(Dict([k \in DOMAIN built |->
                                 ListObj([i \in 1..Len(built[k]) |-> built[k][i].value])]))

\* the items of the argument in the order __setClaims__ or __createClaims__
\* takes them: the claims of a list, the (property, id string) pairs of a dict
RECURSIVE PairsOf(_, _)
PairsOf(d, K) ==
    IF K = {} THEN <<>>
    ELSE LET k == CHOOSE x \in K : TRUE IN
         [i \in 1..Len(Val(d[k])) |-> [property |-> k, idStr |-> Val(d[k])[i]]]
         \o PairsOf(d, K \ {k})
Pairs(d) == PairsOf(d, DOMAIN d)
Pending == IF TypeOf(addArg) = "list" THEN Val(addArg) ELSE Pairs(Val(addArg))
IsClaim(x) == "mainsnak" \in DOMAIN x
ItemProperty(x) == IF IsClaim(x) THEN ClaimProperty(x) ELSE x.property

\* int(idStr[1:])
EntityNumber(idStr) ==
    IF IsDigits(Tail(Val(idStr))) THEN Return(IntObj(float(Tail(Val(idStr)))))
    ELSE Raise("ValueError", <<"invalid literal for int()", Tail(Val(idStr))>>)

\* the dict __setEntityClaim__ encodes for an entity id
EntityValue(n) == Dict(("entity-type" :> Str(<<"i", "t", "e", "m">>)) @@ ("numeric-id" :> n))

\* Entity.__setClaim__, up to the request: the text of the value parameter
ClaimValueJson(idProp, claim_value) ==
    LET datatype == getPropertyType(idProp) IN
    IF datatype.kind = "raise" THEN datatype
    ELSE IF datatype.value = S_external_id THEN
        LET p == pure_value(claim_value) IN
        IF p.kind = "raise" THEN p ELSE Return(json_dumps(p.value))
    ELSE Return(json_dumps(Dict(claim_value.mainsnak.datavalue)))

\* Entity.__setEntityClaim__, and __setClaim__ up to the request when it is
\* given a str: the text of the value parameter
EntityClaimValueJson(idProp, idStr) ==
    LET looked == getPropertyType(idProp)
        datatype == IF looked.kind = "raise" THEN None ELSE looked.value
    IN  IF datatype = S_external_id THEN
            LET c == Claim(NoneObj, Str(idProp), idStr) IN
            IF c.kind = "raise" THEN c ELSE ClaimValueJson(idProp, c.value)
        ELSE IF Len(Val(idStr)) > 0 /\ Head(Val(idStr)) \in {"Q", "P", "L"} THEN
            LET entityId == EntityNumber(idStr) IN
            IF entityId.kind = "raise" THEN entityId
            ELSE IF looked.kind = "raise" THEN looked
            ELSE Return(json_dumps(EntityValue(entityId.value)))
        ELSE Raise("ValueError", <<"Invalid entity ID format", Val(idStr)>>)

\* Entity.__setClaim__: PARAMS
CreateClaimParams(self, idProp, claim_value_json) ==
    [action |-> "wbcreateclaim", format |-> "json", entity |-> Id(self),
     snaktype |-> "value", bot |-> "1", property |-> idProp,
     value |-> claim_value_json, token |-> AUTO]

\* Entity.__setClaim__, after the request: the local entity afterwards.  The
\* two later branches change a dict that Entity.claims built for this read.
LocalUpdate(self, idProp, addedclaim) ==
    LET c == IF Has(self, "claims") THEN self["claims"] ELSE ListObj(<<>>) IN
    IF TypeOf(c) = "list" /\ Len(Val(c)) = 0
    THEN Return(SetItem(self, "claims", Dict(idProp :> Dict(addedclaim))))
    ELSE LET view == claims(self) IN
         IF view.kind = "raise" THEN view ELSE Return(self)

\* the claim the server creates for a request and puts in its answer
AddedClaim(c, n) ==
    [mainsnak |-> IF IsClaim(c) THEN c.mainsnak
                  ELSE [snaktype |-> "value", property |-> c.property,
                        datavalue |-> DataValue(EntityValue(EntityNumber(c.idStr).value),
                                                S_wikibase_entityid),
                        datatype |-> Schema[c.property]],
     rank |-> "normal", id |-> Str(Id(entity) \o <<"$", Digit(n)>>)]

\* the answers the server may give to the request that creates claim c
EntityResponses(c) ==
    { Response(OK200, NoHeaders, Text([claim |-> AddedClaim(c, Len(created) + 1)])),
      Response(OK200, NoHeaders, Text([success |-> 1])),
      Response(OK200, NoHeaders, Text(ErrorBody("badtoken"))),
      Response(503, NoHeaders, NotJSON) }
    \cup (IF Len(sleeps) < MaxRetries
          THEN {Response(OK200, NoHeaders, Text(ErrorBody("maxlag")))} ELSE {})

\* claims a caller may pass: two detached ones and one received for a
\* property of datatype external-id
ClaimChoices ==
    { Claim(NoneObj, Str(<<"P", "5", "1", "3", "7">>), Str(<<"Q", "4", "2">>)).value,
      Claim(NoneObj, Str(<<"P", "2", "0", "9", "3">>), Str(<<"h", "i">>)).value,
      Received(<<"P", "2", "1", "4">>, S_external_id, S_string,
               Str(<<"1", "1", "3">>), "normal", <<"L", "9", "$", "5">>) }

ClaimLists == UNION {[1..n -> ClaimChoices] : n \in 0..MaxClaims}

\* dicts a caller may pass: a property and id strings
ClaimDicts ==
    { (<<"P", "2", "1", "4">> :> ListObj(<<Str(<<"1", "1", "3">>)>>)),
      (<<"P", "2", "1", "4">> :> ListObj(<<Str(<<"Q", "4", "2">>)>>)),
      (<<"P", "5", "1", "3", "7">> :> ListObj(<<Str(<<"Q", "4", "2">>)>>)),
      (<<"P", "5", "1", "3", "7">> :> ListObj(<<Str(<<"Q", "4", "2">>), Str(<<"L", "5">>)>>)),
      (<<"P", "5", "1", "3", "7">> :> ListObj(<<Str(<<"Q", "x">>)>>)),
      (<<"P", "5", "1", "3", "7">> :> ListObj(<<Str(<<"4", "2">>)>>)),
      (<<"P", "0">> :> ListObj(<<Str(<<"Q", "4", "2">>)>>)),
      EmptyDict }

\* the entity before the call: without "claims", with the empty list the
\* server sends for an entity without claims, with an empty dict, with a claim
EntityStates ==
    LET e == ("id" :> Str(EntityId))
        has == Received(<<"P", "5", "1", "3", "7">>, S_wikibase_item, S_wikibase_entityid,
                        EntityPayload, "normal", <<"L", "2", "$", "0">>)
    IN  { e,
          SetItem(e, "claims", ListObj(<<>>)),
          SetItem(e, "claims", Dict(EmptyDict)),
          SetItem(e, "claims", Dict(<<"P", "5", "1", "3", "7">> :> ListObj(<<Dict(has)>>))) }

EntityIdle ==
    /\ entity = EmptyDict
    /\ addArg = NoneObj
    /\ epc = "off"
    /\ position = 0
    /\ posts = <<>>
    /\ created = <<>>
    /\ entityOut = NoResult

\* a constructed session: with a token, with a token and a username, anonymous
EntitySession ==
    /\ username \in {None, <<"a">>} /\ password = None /\ token \in {None} \cup GivenTokens
    /\ maxlag = DefaultMaxlag
    /\ CSRF_TOKEN = (IF token # None THEN token ELSE Unset)
    /\ assertUser = CtorAssertUser
    /\ pc = "entity"
    /\ op = "ctor"
    /\ callerParams = EmptyDict
    /\ data = EmptyDict
    /\ wire = <<>>
    /\ sleeps = <<>>
    /\ result = NoResult

EntityInit ==
    /\ EntitySession
    /\ entity \in EntityStates
    /\ addArg \in {ListObj(l) : l \in ClaimLists} \cup {Dict(d) : d \in ClaimDicts}
                  \cup {TupleObj(<<>>)}
    /\ epc = "call"
    /\ position = 0
    /\ posts = <<>>
    /\ created = <<>>
    /\ entityOut = NoResult

\* Entity.addClaims and the start of the loop of __setClaims__ or of
\* __createClaims__
AddClaims ==
    /\ epc = "call"
    /\ IF TypeOf(addArg) \in {"list", "dict"}
       THEN IF Len(Pending) = 0
            THEN /\ epc' = "done"
                 /\ entityOut' = Return(NoneObj)
                 /\ UNCHANGED position
            ELSE /\ epc' = "claim"
                 /\ position' = 1
                 /\ UNCHANGED entityOut
       ELSE /\ epc' = "done"
            /\ entityOut' = Raise("TypeError", <<"Invalid argument type:", TypeOf(addArg)>>)
            /\ UNCHANGED position
    /\ UNCHANGED <<entity, addArg, posts, created>>
    /\ UNCHANGED <<sessionVars, codecVars, cacheVars, lexVars, subVars>>

\* __setClaims__: one claim of the list, or __createClaims__: one id string
\* of the dict, through __setEntityClaim__; __setClaim__ up to the request.
\* c, pid and v are the locals of one pass, each computed once.
SetClaim ==
    /\ epc = "claim"
    /\ \E c \in {Pending[position]} :
       \E pid \in {ItemProperty(c)} :
       \E v \in {IF IsClaim(c) THEN ClaimValueJson(pid, c) ELSE EntityClaimValueJson(pid, c.idStr)} :
           IF v.kind = "raise"
           THEN /\ epc' = "done"
                /\ entityOut' = v
                /\ UNCHANGED <<callerParams, data, sleeps>>
           ELSE /\ epc' = "post"
                /\ callerParams' = CreateClaimParams(entity, pid, v.value)
                /\ data' = CreateClaimParams(entity, pid, v.value)
                /\ sleeps' = <<>>
                /\ UNCHANGED entityOut
    /\ UNCHANGED <<entity, addArg, position, posts, created>>
    /\ UNCHANGED <<username, password, token, maxlag, CSRF_TOKEN, assertUser, pc, op,
                   wire, result>>
    /\ UNCHANGED <<codecVars, cacheVars, lexVars, subVars>>

\* the end of the call with an exception
EntityRaise(exc) ==
    /\ epc' = "done"
    /\ entityOut' = exc
    /\ UNCHANGED <<entity, position>>

\* __setClaim__: one invocation of self.repo.post and, when it returns, the
\* rest of __setClaim__ and the step of the loop
PostClaim ==
    /\ epc = "post"
    /\ LET c == Pending[position] IN
       IF PostFailsEarly(data)
       THEN /\ EntityRaise(Raise("AttributeError", <<"WikidataSession", "CSRF_TOKEN">>))
            /\ UNCHANGED <<data, wire, sleeps, posts, created>>
       ELSE \E R \in EntityResponses(c) :
            LET sent == PostData(data)
                out == PostOutcome(R) IN
            /\ data' = sent
            /\ wire' = Append(wire, RoundTrip("POST", sent, R))
            /\ posts' = Append(posts, [i |-> position, params |-> sent, R |-> R])
            /\ created' = IF R.status_code = OK200 /\ R.text.parses /\ Has(R.text.json, "claim")
                          THEN Append(created, R.text.json["claim"]) ELSE created
            /\ IF out.kind = "retry"
               THEN /\ sleeps' = Append(sleeps, out.sleepfor)
                    /\ UNCHANGED <<epc, entity, position, entityOut>>
               ELSE /\ UNCHANGED sleeps
                    /\ IF out.kind = "raise" THEN EntityRaise(out)
                       ELSE LET DATA == out.value IN
                            IF ~Has(DATA, "claim") THEN EntityRaise(Raise("AssertionError", <<>>))
                            ELSE LET upd == LocalUpdate(entity, ItemProperty(c), DATA["claim"]) IN
                                 IF upd.kind = "raise" THEN EntityRaise(upd)
                                 ELSE /\ entity' = upd.value
                                      /\ IF position = Len(Pending)
                                         THEN /\ epc' = "done"
                                              /\ entityOut' = Return(NoneObj)
                                              /\ UNCHANGED position
                                         ELSE /\ epc' = "claim"
                                              /\ position' = position + 1
                                              /\ UNCHANGED entityOut
    /\ UNCHANGED <<addArg, callerParams>>
    /\ UNCHANGED <<username, password, token, maxlag, CSRF_TOKEN, assertUser, pc, op, result>>
    /\ UNCHANGED <<codecVars, cacheVars, lexVars, subVars>>

-----------------------------------------------------------------------------
(* LexData/lexeme.py: Lexeme.createSense and Lexeme.createForm.  The claims  *)
(* are added by the addClaims of the new Sense or Form, the actions above.   *)

\* createSense: data_sense
SenseData(glosses) ==
    [glosses |-> [lang \in DOMAIN glosses |-> [value |-> glosses[lang], language |-> lang]]]

\* Lexeme.language
LexemeLanguage(self) ==
    LET lemmas == Val(self["lemmas"]) IN lemmas[CHOOSE l \in DOMAIN lemmas : TRUE].language

\* createForm: the dict that becomes data_form
FormData(self, call) ==
    LET languagename == IF call.language = NoneObj THEN LexemeLanguage(self)
                        ELSE call.language.short
    IN  [representations |-> (languagename :> [value |-> call.form, language |-> languagename]),
         grammaticalFeatures |-> call.infosGram]

\* createSense, createForm: PARAMS
SubEntityParams(self, call) ==
    [action |-> IF call.fn = "createSense" THEN "wbladdsense" ELSE "wbladdform",
     format |-> "json", lexemeId |-> Id(self), token |-> AUTO, bot |-> "1",
     data |-> json_dumps(IF call.fn = "createSense" THEN SenseData(call.glosses)
                         ELSE FormData(self, call))]

\* the member of the answer and of the lexeme that holds the sub-entity
AnswerKey(call) == IF call.fn = "createSense" THEN "sense" ELSE "form"
ListKey(call) == IF call.fn = "createSense" THEN "senses" ELSE "forms"

\* the sense or form the server creates and puts in its answer: a new id and
\* no claims
NewSubEntity(self, call) ==
    ("id" :> Str(Id(self) \o <<"-", (IF call.fn = "createSense" THEN "S" ELSE "F"),
                             Digit(Len(Val(self[ListKey(call)])) + Len(remote) + 1)>>))
    @@ ("claims" :> ListObj(<<>>))

\* the answers the server may give to the creation request
SubEntityResponses ==
    { Response(OK200, NoHeaders, Text(AnswerKey(subCall) :> NewSubEntity(local, subCall))),
      Response(OK200, NoHeaders, Text([success |-> 1])),
      Response(OK200, NoHeaders, Text(ErrorBody("badtoken"))),
      Response(503, NoHeaders, NotJSON) }
    \cup (IF Len(sleeps) < MaxRetries
          THEN {Response(OK200, NoHeaders, Text(ErrorBody("maxlag")))} ELSE {})

\* self["senses"].append(addedSense), self["forms"].append(addedForm)
AppendSubEntity(self, call, sub) ==
    SetItem(self, ListKey(call), ListObj(Append(Val(self[ListKey(call)]), Dict(sub))))

\* the lexeme before the call, as getLex filled it
LocalLexemes ==
    LET l == ("id" :> Str(EntityId))
             @@ ("lemmas" :> Dict("en" :> [value |-> <<"f", "i", "r", "s", "t">>, language |-> "en"]))
        s1 == ("id" :> Str(<<"L", "2", "-", "S", "1">>)) @@ ("claims" :> ListObj(<<>>))
        f1 == ("id" :> Str(<<"L", "2", "-", "F", "1">>)) @@ ("claims" :> ListObj(<<>>))
    IN  { l @@ ("senses" :> ListObj(<<>>)) @@ ("forms" :> ListObj(<<>>)),
          l @@ ("senses" :> ListObj(<<Dict(s1)>>)) @@ ("forms" :> ListObj(<<Dict(f1)>>)) }

\* the claims argument: absent, a list of claims, a dict of id strings
ClaimsArguments ==
    {NoneObj} \cup {ListObj(l) : l \in ClaimLists} \cup {Dict(d) : d \in ClaimDicts}

SubCalls ==
    { [fn |-> "createSense", glosses |-> ("en" :> <<"t", "e", "s", "t">>), claims |-> c]
        : c \in ClaimsArguments }
    \cup { [fn |-> "createForm", form |-> <<"t", "e", "s", "t">>, infosGram |-> <<"Q100">>,
            language |-> lang, claims |-> c]
        : lang \in {NoneObj, Language("de", "Q188")}, c \in ClaimsArguments }

SubIdle ==
    /\ subCall = NoResult
    /\ spc = "off"
    /\ local = EmptyDict
    /\ remote = <<>>
    /\ subOut = NoResult

SubInit ==
    /\ EntitySession
    /\ subCall \in SubCalls
    /\ spc = "call"
    /\ local \in LocalLexemes
    /\ remote = <<>>
    /\ subOut = NoResult

\* createSense, createForm up to the request
CreateSubEntity ==
    /\ spc = "call"
    /\ spc' = "post"
    /\ callerParams' = SubEntityParams(local, subCall)
    /\ data' = SubEntityParams(local, subCall)
    /\ sleeps' = <<>>
    /\ UNCHANGED <<subCall, local, remote, subOut>>
    /\ UNCHANGED <<username, password, token, maxlag, CSRF_TOKEN, assertUser, pc, op,
                   wire, result>>
    /\ UNCHANGED <<codecVars, cacheVars, lexVars, entityVars>>

\* the end of the call with an exception
SubEntityRaise(exc) ==
    /\ spc' = "done"
    /\ subOut' = exc
    /\ UNCHANGED <<local, entityVars>>

\* createSense, createForm: one invocation of self.repo.post and, when it
\* returns, the rest of the function up to the call of addClaims, or to the
\* end when there are no claims to add
PostSubEntity ==
    /\ spc = "post"
    /\ IF PostFailsEarly(data)
       THEN /\ SubEntityRaise(Raise("AttributeError", <<"WikidataSession", "CSRF_TOKEN">>))
            /\ UNCHANGED <<data, wire, sleeps, remote>>
       ELSE \E R \in SubEntityResponses :
            LET sent == PostData(data)
                out == PostOutcome(R)
                key == AnswerKey(subCall) IN
            /\ data' = sent
            /\ wire' = Append(wire, RoundTrip("POST", sent, R))
            /\ remote' = IF R.status_code = OK200 /\ R.text.parses /\ Has(R.text.json, key)
                         THEN Append(remote, R.text.json[key]["id"]) ELSE remote
            /\ IF out.kind = "retry"
               THEN /\ sleeps' = Append(sleeps, out.sleepfor)
                    /\ UNCHANGED <<spc, local, subOut, entityVars>>
               ELSE /\ UNCHANGED sleeps
                    /\ IF out.kind = "raise" THEN SubEntityRaise(out)
                       ELSE LET DATA == out.value IN
                            IF ~Has(DATA, key) THEN SubEntityRaise(Raise("KeyError", <<key>>))
                            ELSE IF Truthy(subCall.claims)
                            THEN /\ spc' = "claims"
                                 /\ entity' = DATA[key]
                                 /\ addArg' = subCall.claims
                                 /\ epc' = "call"
                                 /\ UNCHANGED <<position, posts, created, entityOut>>
                                 /\ UNCHANGED <<local, subOut>>
                            ELSE /\ spc' = "done"
                                 /\ local' = AppendSubEntity(local, subCall, DATA[key])
                                 /\ subOut' = Return(DATA[key]["id"])
                                 /\ UNCHANGED entityVars
    /\ UNCHANGED <<subCall, callerParams>>
    /\ UNCHANGED <<username, password, token, maxlag, CSRF_TOKEN, assertUser, pc, op, result>>
    /\ UNCHANGED <<codecVars, cacheVars, lexVars>>

\* createSense, createForm after addClaims: its exception goes on to the
\* caller; otherwise the sub-entity is appended and its id returned
FinishSubEntity ==
    /\ spc = "claims"
    /\ epc = "done"
    /\ spc' = "done"
    /\ IF entityOut.kind = "raise"
       THEN /\ subOut' = entityOut
            /\ UNCHANGED local
       ELSE /\ local' = AppendSubEntity(local, subCall, entity)
            /\ subOut' = Return(entity["id"])
    /\ UNCHANGED <<subCall, remote>>
    /\ UNCHANGED <<sessionVars, codecVars, cacheVars, lexVars, entityVars>>

-----------------------------------------------------------------------------

vars == <<sessionVars, codecVars, cacheVars, lexVars, entityVars, subVars>>

Init == SessionInit /\ CodecIdle /\ CacheIdle /\ LexIdle /\ EntityIdle /\ SubIdle

Next ==
    \/ Construct
    \/ LoginGetToken
    \/ LoginPost
    \/ LoginGetCsrf
    \/ CallGet
    \/ CallPost
    \/ Get
    \/ Post

Spec == Init /\ [][Next]_vars

CodecNext ==
    \/ Encode
    \/ NewClaim
    \/ PureValue
    \/ NumericRank

CodecStart == CodecInit /\ CacheIdle /\ LexIdle /\ EntityIdle /\ SubIdle

CodecSpec == CodecStart /\ [][CodecNext]_vars

CacheInit == SessionIdle /\ CodecIdle /\ CacheIdle /\ LexIdle /\ EntityIdle /\ SubIdle

CacheNext == Resolve

CacheSpec == CacheInit /\ [][CacheNext]_vars

LexemeInit == SessionIdle /\ CodecIdle /\ CacheIdle /\ LexInit /\ EntityIdle /\ SubIdle

LexemeNext ==
    \/ SearchLexemes
    \/ ExamineItem
    \/ ReturnFound
    \/ NotFound
    \/ PostNewLexeme
    \/ FetchNewLexeme
    \/ CreateClaims
    \/ SetLexemeClaim
    \/ RefreshAndReturn

LexemeSpec == LexemeInit /\ [][LexemeNext]_vars

EntityStart == EntityInit /\ CodecIdle /\ CacheIdle /\ LexIdle /\ SubIdle

EntityNext ==
    \/ AddClaims
    \/ SetClaim
    \/ PostClaim

EntitySpec == EntityStart /\ [][EntityNext]_vars

SubEntityStart == SubInit /\ CodecIdle /\ CacheIdle /\ LexIdle /\ EntityIdle

SubEntityNext ==
    \/ CreateSubEntity
    \/ PostSubEntity
    \/ AddClaims
    \/ SetClaim
    \/ PostClaim
    \/ FinishSubEntity

SubEntitySpec == SubEntityStart /\ [][SubEntityNext]_vars

-----------------------------------------------------------------------------
(* Properties of the session *)

UserCall == op \in {"get", "post"}
Method == IF op = "get" THEN "GET" ELSE "POST"
LastTrip == wire[Len(wire)]
Succeeds(R) == R.status_code = 200 /\ R.text.parses /\ ~Has(R.text.json, "error")

AdvertisedDelay(R) ==
    IF "retry-after" \in DOMAIN R.headers THEN float(R.headers["retry-after"]) ELSE 5

\* the responses of the current call that carry the API error "maxlag"
MaxlagAnswers == {i \in 1..Len(wire) : IsMaxlag(wire[i].R)}

\* those of them that are API answers in the sense of post: get reads the body
\* whatever the status, post only the body of an HTTP 200 answer
MaxlagAnswers200 ==
    {i \in MaxlagAnswers : wire[i].method = "POST" => wire[i].R.status_code = 200}

\* every response in lagged is followed by exactly one sleep of the advertised
\* duration and one more request with the same parameters, no other response
\* makes the call sleep, and a response without error after n of them ends the
\* call with its payload, n+1 requests and n sleeps
RetriesExactly(lagged) ==
    UserCall =>
        /\ Len(sleeps) <= Len(wire)
        /\ \A i \in 1..Len(wire) :
              /\ i \in lagged <=> i <= Len(sleeps)
              /\ wire[i].method = Method
              /\ wire[i].params = wire[1].params
        /\ \A i \in 1..Len(sleeps) : sleeps[i] = AdvertisedDelay(wire[i].R)
        /\ (Len(wire) > 0 /\ Len(wire) \in lagged) => pc = op
        /\ (pc = "ready" /\ Len(wire) > 0 /\ Succeeds(LastTrip.R)) =>
              /\ result = Return(LastTrip.R.text.json)
              /\ Len(wire) = Len(sleeps) + 1

\* C1 as stated: in a call of get or post alike, every response carrying the
\* API error "maxlag" is followed by exactly one sleep of the advertised
\* retry-after duration (5 without the header) and one more request with the
\* same parameters, however many came before; no other response makes the call
\* sleep; and when a response without error arrives after n maxlag responses
\* the call returns its payload, having sent n+1 requests and slept n times.
C1_MaxlagRetry_AnyStatus == RetriesExactly(MaxlagAnswers)

\* C1 amended: the same, where for post the maxlag responses are those
\* answered with HTTP 200 (get retries a maxlag error whatever the status).
C1_MaxlagRetry == RetriesExactly(MaxlagAnswers200)

C1_Witness ==
    /\ pc = "ready" /\ op = "post"
    /\ result.kind = "return"
    /\ sleeps = <<5, 12>>
    /\ Len(wire) = 3

\* C2: no POST is transmitted with the literal "__AUTO__" as its token, and
\* when post is called with token "__AUTO__" every transmitted attempt, the
\* first and each retry, carries the session's CSRF token, which is a token
\* the server issued or the constructor was given.
C2_CsrfToken ==
    /\ \A i \in 1..Len(wire) :
          (wire[i].method = "POST" /\ "token" \in DOMAIN wire[i].params)
              => wire[i].params["token"] # AUTO
    /\ (op = "post" /\ "token" \in DOMAIN callerParams /\ callerParams["token"] = AUTO) =>
          \A i \in 1..Len(wire) :
              /\ wire[i].params["token"] = CSRF_TOKEN
              /\ CSRF_TOKEN \in CsrfTokens \cup GivenTokens

C2_Witness ==
    /\ op = "post" /\ pc = "ready"
    /\ "token" \in DOMAIN callerParams /\ callerParams["token"] = AUTO
    /\ Len(wire) >= 2
    /\ username # None /\ password # None /\ token = None
    /\ result.kind = "return"

LoggedIn == username # None /\ password # None

\* an answer post() hands back to login that does not report result "Success"
LoginRefused(t) ==
    /\ t.method = "POST"
    /\ Succeeds(t.R)
    /\ ~(/\ "login" \in DOMAIN t.R.text.json
         /\ "result" \in DOMAIN t.R.text.json["login"]
         /\ t.R.text.json["login"]["result"] = "Success")

ServerReason(R) ==
    IF "login" \in DOMAIN R.text.json /\ "reason" \in DOMAIN R.text.json["login"]
    THEN R.text.json["login"]["reason"] ELSE ""

\* C3: when the login POST is answered without result "Success", whatever the
\* shape of the answer, construction fails with the login error carrying the
\* server's reason, the login POST is the last request sent, and no CSRF token
\* is stored.
C3_LoginFailure ==
    op = "ctor" =>
        \A i \in 1..Len(wire) :
            LoginRefused(wire[i]) =>
                /\ i = Len(wire)
                /\ pc = "ctor_raised"
                /\ CSRF_TOKEN = Unset
                /\ result.kind = "raise"
                /\ result.type = "PermissionError"
                /\ result.args = <<"Login failed", ServerReason(wire[i].R)>>

\* u truncated at the first "@"
IsTruncated(u, a) ==
    /\ Len(a) <= Len(u)
    /\ \A k \in 1..Len(a) : a[k] = u[k] /\ a[k] # "@"
    /\ Len(a) < Len(u) => u[Len(a) + 1] = "@"

AssertUserPassedOn(p) ==
    /\ ("assertuser" \in DOMAIN callerParams) =>
          /\ "assertuser" \in DOMAIN p
          /\ p["assertuser"] = callerParams["assertuser"]
    /\ (username = None /\ "assertuser" \notin DOMAIN callerParams) =>
          "assertuser" \notin DOMAIN p

AssertUserInjected(p) ==
    (username # None /\ "assertuser" \notin DOMAIN callerParams) =>
        /\ "assertuser" \in DOMAIN p
        /\ IsTruncated(username, p["assertuser"])

\* C4 as stated: every POST of a session that was given a username, the login
\* POST included, carries assertuser = the username truncated at the first "@"
\* unless the caller supplied one; a caller's assertuser is passed on unchanged;
\* a session without username adds none.
C4_AssertUser_EveryPost ==
    \A i \in 1..Len(wire) :
        wire[i].method = "POST" =>
            /\ AssertUserPassedOn(wire[i].params)
            /\ AssertUserInjected(wire[i].params)

\* C4 amended: the same for every POST of a call made on the constructed
\* session; the login POST, sent during construction before the identity is
\* bound, carries no assertuser.
C4_AssertUser ==
    \A i \in 1..Len(wire) :
        wire[i].method = "POST" =>
            /\ AssertUserPassedOn(wire[i].params)
            /\ IF op = "ctor"
               THEN "assertuser" \notin DOMAIN wire[i].params
               ELSE AssertUserInjected(wire[i].params)

C4_Witness ==
    /\ op = "post" /\ Len(wire) >= 1
    /\ username = <<"a", "@", "b", "@", "c">>
    /\ "assertuser" \notin DOMAIN callerParams
    /\ wire[1].params["assertuser"] = <<"a">>

MaxlagParam(p) ==
    /\ "maxlag" \in DOMAIN p
    /\ p["maxlag"] = IF op = "ctor" THEN <<"3", "0">> ELSE <<"5">>

\* C5 as stated: every transmitted POST carries maxlag = 30 during login and 5
\* otherwise, and when construction ends, by success or by failure, the
\* session's threshold is 5.
C5_Maxlag_RestoredAlways ==
    /\ \A i \in 1..Len(wire) : wire[i].method = "POST" => MaxlagParam(wire[i].params)
    /\ pc \in {"ready", "ctor_raised"} => maxlag = 5

\* C5 amended: every transmitted POST carries maxlag = 30 during login and 5
\* otherwise; the threshold is 5 whenever construction has succeeded, and is
\* left at 30 when login makes the constructor raise.
C5_Maxlag ==
    /\ \A i \in 1..Len(wire) : wire[i].method = "POST" => MaxlagParam(wire[i].params)
    /\ pc \in {"ready", "get", "post"} => maxlag = 5
    /\ pc = "ctor_raised" => maxlag = 30

C5_Witness ==
    /\ pc = "ctor_raised"
    /\ Len(wire) >= 2
    /\ LastTrip.method = "POST"
    /\ LastTrip.params["maxlag"] = <<"3", "0">>
    /\ maxlag = 30

CarriesError(R) == R.text.parses /\ "error" \in DOMAIN R.text.json
PostEnded == op = "post" /\ pc = "ready" /\ Len(wire) > 0
RequestError(R) ==
    /\ result.kind = "raise"
    /\ result.type = "Exception"
    /\ result.args[2] = R.status_code
    /\ result.args[3] = R.text

\* C6 as stated: a post answered by an API error other than maxlag fails with
\* PermissionError, that response being the last of the call (no sleep, no
\* retry); a non-200 answer with no decodable error body fails with
\* RequestError; a maxlag error never ends the call with a failure.
C6_PostErrors_AnyStatus ==
    PostEnded =>
        LET R == LastTrip.R IN
        /\ (CarriesError(R) /\ ~IsMaxlag(R)) =>
              /\ result.kind = "raise" /\ result.type = "PermissionError"
              /\ Len(wire) = Len(sleeps) + 1
        /\ (R.status_code # 200 /\ ~CarriesError(R)) => RequestError(R)
        /\ result.kind = "raise" => ~IsMaxlag(R)

\* C6 amended: a post answered with HTTP 200 by an API error other than maxlag
\* fails with PermissionError, that response being the last of the call (no
\* sleep, no retry); every non-200 answer, whatever its body (an error body,
\* maxlag included, or none), fails with RequestError without sleep or retry; a
\* maxlag error answered with HTTP 200 never ends the call with a failure.
C6_PostErrors ==
    PostEnded =>
        LET R == LastTrip.R IN
        /\ (R.status_code = 200 /\ CarriesError(R) /\ ~IsMaxlag(R)) =>
              /\ result.kind = "raise" /\ result.type = "PermissionError"
              /\ result.args[2] = R.text.json["error"]
              /\ Len(wire) = Len(sleeps) + 1
        /\ R.status_code # 200 =>
              /\ RequestError(R)
              /\ Len(wire) = Len(sleeps) + 1
        /\ result.kind = "raise" => ~(IsMaxlag(R) /\ R.status_code = 200)

C6_Witness ==
    /\ PostEnded
    /\ LastTrip.R.status_code = 503
    /\ CarriesError(LastTrip.R)
    /\ Len(sleeps) = 1
    /\ result.kind = "raise" /\ result.type = "Exception"

\* C7: a get whose last response is no maxlag error either got HTTP 200 with
\* a body without error and returns the parsed JSON, or fails with a
\* RequestError carrying the HTTP status and the body; in particular so for a
\* non-200 answer without "error" member and for one that is not JSON.
C7_GetErrors ==
    (op = "get" /\ pc = "ready" /\ Len(wire) > 0 /\ ~IsMaxlag(LastTrip.R)) =>
        LET R == LastTrip.R IN
        /\ Len(wire) = Len(sleeps) + 1
        /\ IF Succeeds(R) THEN result = Return(R.text.json) ELSE RequestError(R)

\* the requests of a login: GET login token (a times), POST login with the
\* token of the last of these answers, GET CSRF token
LoginOrder ==
    \E a, b \in 1..Len(wire) :
        /\ a < b /\ b < Len(wire)
        /\ \A i \in 1..Len(wire) :
              /\ i <= a =>
                    /\ wire[i].method = "GET"
                    /\ wire[i].params = [action |-> "query", meta |-> "tokens",
                                         type |-> "login", format |-> "json"]
              /\ (a < i /\ i <= b) =>
                    /\ wire[i].method = "POST"
                    /\ wire[i].params["action"] = "login"
                    /\ wire[i].params["lgname"] = username
                    /\ wire[i].params["lgpassword"] = password
                    /\ wire[i].params["lgtoken"]
                         = wire[a].R.text.json["query"]["tokens"]["logintoken"]
              /\ i > b =>
                    /\ wire[i].method = "GET"
                    /\ wire[i].params = [action |-> "query", meta |-> "tokens",
                                         format |-> "json"]

FetchedCsrf == LastTrip.R.text.json["query"]["tokens"]["csrftoken"]
Constructed == pc = "ready" /\ op = "ctor"

\* C8 as stated: after a successful login the requests were GET login token,
\* POST login with that token, GET CSRF token, and the active CSRF token is the
\* csrftoken of the last answer; a token given to the constructor is the active
\* token only when no login was performed.
C8_Login_FetchedTokenWins ==
    Constructed =>
        IF LoggedIn
        THEN LoginOrder /\ CSRF_TOKEN = FetchedCsrf
        ELSE wire = <<>> /\ CSRF_TOKEN = IF token # None THEN token ELSE Unset

\* C8 amended: after a successful login the requests were GET login token,
\* POST login with that token, GET CSRF token, and the active CSRF token is the
\* csrftoken of the last answer unless a token was given to the constructor; a
\* given token is always the active token, after a login too, where it
\* replaces the fetched one.
C8_Login ==
    Constructed =>
        IF LoggedIn
        THEN LoginOrder /\ CSRF_TOKEN = IF token # None THEN token ELSE FetchedCsrf
        ELSE wire = <<>> /\ CSRF_TOKEN = IF token # None THEN token ELSE Unset

C8_Witness ==
    /\ Constructed /\ LoggedIn
    /\ token = <<"T", "0">>
    /\ CSRF_TOKEN = token
    /\ FetchedCsrf = <<"C", "2">>
    /\ Len(wire) = 5

-----------------------------------------------------------------------------
(* Properties of the codec *)

\* the datatype the server declares for the property given to Claim(...)
DeclaredDatatype == Schema[argPropertyId.str]
DetachedClaimRead == cpc = "pure" /\ argClaim = NoneObj

\* C9: the pure_value of the detached claim Claim(propertyId=P, value=V) is V
\* when P is an entity-reference property and V an id string, when P is a
\* plain-string property (string, url, math, commonsMedia, ...) and V a
\* string, and is the text of V when P is monolingualtext and V a payload.
C9_RoundTrip ==
    DetachedClaimRead =>
        /\ (/\ DeclaredDatatype \in EntityDatatypes \cup StringDatatypes
            /\ "str" \in DOMAIN argValue)
              => pure = Return(argValue)
        /\ (/\ DeclaredDatatype = <<"m", "o", "n", "o", "l", "i", "n", "g", "u", "a", "l", "t", "e", "x", "t">>
            /\ "dict" \in DOMAIN argValue
            /\ "text" \in DOMAIN argValue.dict)
              => pure = Return(argValue.dict["text"])

EntityKindOf ==
    (<<"w", "i", "k", "i", "b", "a", "s", "e", "-", "l", "e", "x", "e", "m", "e">>
        :> <<"l", "e", "x", "e", "m", "e">>)
    @@ (<<"w", "i", "k", "i", "b", "a", "s", "e", "-", "f", "o", "r", "m">>
        :> <<"f", "o", "r", "m">>)
    @@ (<<"w", "i", "k", "i", "b", "a", "s", "e", "-", "s", "e", "n", "s", "e">>
        :> <<"s", "e", "n", "s", "e">>)
    @@ (<<"w", "i", "k", "i", "b", "a", "s", "e", "-", "i", "t", "e", "m">>
        :> <<"i", "t", "e", "m">>)
    @@ (<<"w", "i", "k", "i", "b", "a", "s", "e", "-", "p", "r", "o", "p", "e", "r", "t", "y">>
        :> <<"p", "r", "o", "p", "e", "r", "t", "y">>)

WikibaseEntity == <<"w", "i", "k", "i", "b", "a", "s", "e", "-", "e", "n", "t", "i", "t", "y">>

\* C10: buildDataValue for a datatype wikibase-K, K in lexeme, form, sense,
\* item, property: an id string s yields type "wikibase-entity" with value
\* {entity-type: K, id: s}; a dict m yields type "wikibase-entity" with value
\* m itself; a value of any other type raises TypeError.
C10_EncodeEntity ==
    (cpc = "encoded" /\ encoded.datatype \in DOMAIN EntityKindOf) =>
        IF "str" \in DOMAIN argValue THEN
            encoded.out =
                Return([type |-> WikibaseEntity,
                        value |-> [dict |-> ("entity-type" :> [str |-> EntityKindOf[encoded.datatype]])
                                            @@ ("id" :> argValue)]])
        ELSE IF "dict" \in DOMAIN argValue THEN
            encoded.out = Return([type |-> WikibaseEntity, value |-> argValue])
        ELSE encoded.out.kind = "raise" /\ encoded.out.type = "TypeError"

C10_Witness ==
    /\ cpc = "encoded"
    /\ encoded.datatype = <<"w", "i", "k", "i", "b", "a", "s", "e", "-", "i", "t", "e", "m">>
    /\ argValue = [str |-> <<"Q", "4", "2">>]
    /\ encoded.out.kind = "return"
    /\ encoded.out.value.value.dict["entity-type"] = [str |-> <<"i", "t", "e", "m">>]
    /\ encoded.out.value.value.dict["id"] = [str |-> <<"Q", "4", "2">>]

\* the amount "%+f" writes for an int or float
SignedDecimal(v) == Str(FormatPlusF(v))

\* C11: buildDataValue for datatype quantity always tags the wire value with
\* type "quantity": an int or float v yields type "quantity" with value
\* {amount: the signed decimal string of v, unit: "1"}, and a dict m yields
\* type "quantity" with value m.
C11_EncodeQuantity ==
    (cpc = "encoded" /\ encoded.datatype = S_quantity) =>
        /\ TypeOf(argValue) \in {"int", "float"} =>
              encoded.out = Return(DataValue(Dict([amount |-> SignedDecimal(argValue),
                                                   unit |-> Str(<<"1">>)]),
                                             S_quantity))
        /\ TypeOf(argValue) = "dict" => encoded.out = Return(DataValue(argValue, S_quantity))

StructuredDatatypes == {S_quantity, S_time, S_globe_coordinate}

\* the keys a payload of the datatype has
PayloadKeys(datatype) ==
    IF datatype = S_quantity THEN {"amount", "unit"}
    ELSE IF datatype = S_time
    THEN {"time", "timezone", "before", "after", "precision", "calendarmodel"}
    ELSE {"latitude", "longitude"}

HasPayloadShape(datatype, v) == PayloadKeys(datatype) \subseteq DOMAIN Val(v)

WireType(datatype) == IF datatype = S_globe_coordinate THEN S_globecoordinate ELSE datatype

RaisesTypeError(out) == out.kind = "raise" /\ out.type = "TypeError"

\* C12 as stated: for the quantity, time and globe-coordinate datatypes,
\* buildDataValue raises TypeError for a plain string and also for a dict that
\* has not the payload shape of the datatype; no wire value is produced.
C12_EncodeTypeErrors_ShapeChecked ==
    (cpc = "encoded" /\ encoded.datatype \in StructuredDatatypes) =>
        /\ TypeOf(argValue) = "str" => RaisesTypeError(encoded.out)
        /\ (TypeOf(argValue) = "dict" /\ ~HasPayloadShape(encoded.datatype, argValue))
              => RaisesTypeError(encoded.out)

\* C12 amended: for the quantity, time and globe-coordinate datatypes,
\* buildDataValue raises TypeError for a plain string, and no wire value is
\* produced; a dict is never rejected: whatever its shape it is returned
\* unchanged as the wire value, tagged with the datatype's wire type.
C12_EncodeTypeErrors ==
    (cpc = "encoded" /\ encoded.datatype \in StructuredDatatypes) =>
        /\ TypeOf(argValue) = "str" => RaisesTypeError(encoded.out)
        /\ TypeOf(argValue) = "dict" =>
              encoded.out = Return(DataValue(argValue, WireType(encoded.datatype)))

C12_Witness ==
    /\ cpc = "encoded"
    /\ encoded.datatype = S_time
    /\ argValue = Str(<<"Q", "4", "2">>)
    /\ encoded.out.kind = "raise" /\ encoded.out.type = "TypeError"

DispatchTable ==
    EntityDatatypes \cup StringDatatypes
    \cup {S_monolingualtext, S_globe_coordinate, S_quantity, S_time}

KnownWireTypes ==
    {S_wikibase_entityid, S_string, S_monolingualtext, S_quantity, S_time,
     S_globecoordinate}

RaisesNotImplemented(out) == out.kind = "raise" /\ out.type = "NotImplementedError"

\* the wire value's type discriminator of the claim that was read
Discriminator == claim.value.mainsnak.datavalue.type

\* C13: buildDataValue with a datatype outside the dispatch table raises
\* NotImplementedError for every value and produces no wire value; with a
\* datatype inside the table it never raises NotImplementedError; and
\* pure_value of a claim whose wire value's discriminator is none of the six
\* known kinds raises NotImplementedError.
C13_NotImplemented ==
    /\ cpc = "encoded" =>
          (encoded.datatype \notin DispatchTable <=> RaisesNotImplemented(encoded.out))
    /\ (cpc = "pure" /\ Discriminator \notin KnownWireTypes) => RaisesNotImplemented(pure)

ReceivedClaimRead == cpc = "pure" /\ TypeOf(argClaim) = "dict"

\* what the docstring of pure_value promises for a wire value
Decoded(dv) ==
    IF dv.type = S_wikibase_entityid THEN Return(Val(dv.value)["id"])
    ELSE IF dv.type = S_string THEN Return(dv.value)
    ELSE IF dv.type = S_monolingualtext THEN Return(Val(dv.value)["text"])
    ELSE IF dv.type = S_quantity THEN PyFloat(Val(dv.value)["amount"])
    ELSE IF dv.type = S_time THEN Return(Val(dv.value)["time"])
    ELSE Return(TupleObj(<<PyFloat(Val(dv.value)["latitude"]).value,
                           PyFloat(Val(dv.value)["longitude"]).value>>))

\* C14: pure_value of a claim received from the server dispatches on the wire
\* value's type discriminator (wikibase-entityid: the id, string: the string,
\* monolingualtext: the text, quantity: the amount as a number, time: the
\* timestamp string, globecoordinate: the pair latitude, longitude), whatever
\* property datatype the same snak records.
C14_Decode ==
    (ReceivedClaimRead /\ Discriminator \in KnownWireTypes) =>
        pure = Decoded(claim.value.mainsnak.datavalue)

\* v as a float
Numeric(v) == IF TypeOf(v) = "int" THEN FloatObj(Val(v) * FloatUnit) ELSE v

DetachedClaimBuilt == cpc \in {"claim", "pure", "rank"} /\ argClaim = NoneObj /\ TypeOf(argPropertyId) = "str"

\* C15: for every int or float v the detached claim of a quantity property
\* with value v is built and its pure_value is numerically equal to v; for
\* every datetime d the detached claim of a time property is built and its
\* pure_value is the encoded timestamp string of d at midnight.
C15_ReducedRoundTrip ==
    DetachedClaimBuilt =>
        /\ (/\ Val(argPropertyId) \in DOMAIN Schema
            /\ Schema[Val(argPropertyId)] = S_quantity
            /\ TypeOf(argValue) \in {"int", "float"}) =>
              /\ claim.kind = "return"
              /\ cpc = "pure" => pure = Return(Numeric(argValue))
        /\ (/\ Val(argPropertyId) \in DOMAIN Schema
            /\ Schema[Val(argPropertyId)] = S_time
            /\ TypeOf(argValue) = "datetime") =>
              /\ claim.kind = "return"
              /\ cpc = "pure" =>
                    /\ pure.kind = "return"
                    /\ TypeOf(pure.value) = "str"
                    /\ pure.value = Val(claim.value.mainsnak.datavalue.value)["time"]

\* "+<date>T00:00:00Z" for the calendar day of d
MidnightOf(d) ==
    <<"+">> \o Pad(d.year, 4) \o <<"-">> \o Pad(d.month, 2) \o <<"-">> \o Pad(d.day, 2)
    \o <<"T", "0", "0", ":", "0", "0", ":", "0", "0", "Z">>

\* C16: buildDataValue for datatype time and a datetime d yields type "time"
\* with value {time: "+<date of d>T00:00:00Z", timezone: 0, before: 0,
\* after: 0, precision: 11, calendarmodel: the Gregorian URI}, which depends
\* on the calendar day of d only.
C16_EncodeTime ==
    (cpc = "encoded" /\ encoded.datatype = S_time /\ TypeOf(argValue) = "datetime") =>
        encoded.out =
            Return(DataValue(Dict([time |-> Str(MidnightOf(Val(argValue))),
                                   timezone |-> IntObj(0), before |-> IntObj(0),
                                   after |-> IntObj(0), precision |-> IntObj(11),
                                   calendarmodel |-> Str(GregorianURI)]),
                             S_time))

\* the error numeric_rank raises for a rank outside the three
InvalidStateError(out, rank) ==
    /\ out.kind = "raise"
    /\ out.type = "NotImplementedError"
    /\ out.args = <<"Unknown or invalid rank", rank>>

\* C17: numeric_rank is +1 for rank "preferred", 0 for "normal", -1 for
\* "deprecated" and fails with the invalid-rank error for every other rank
\* string; the claim is after the read what the constructor built.
C17_NumericRank ==
    cpc = "rank" =>
        LET rank == claim.value.rank IN
        /\ rank = "preferred" => numeric = Return(IntObj(1))
        /\ rank = "normal" => numeric = Return(IntObj(0))
        /\ rank = "deprecated" => numeric = Return(IntObj(-1))
        /\ rank \notin {"preferred", "normal", "deprecated"} => InvalidStateError(numeric, rank)
        /\ claim = Claim(argClaim, argPropertyId, argValue)

C17_Witness ==
    /\ cpc = "rank"
    /\ TypeOf(argClaim) = "dict"
    /\ claim.value.rank = "best"
    /\ numeric.kind = "raise"

-----------------------------------------------------------------------------
(* Properties of the datatype cache *)

Resolved == resolution # NoResult

\* C18 as stated: once getPropertyType has returned a datatype for a property
\* id, every later call for that id returns the same datatype without a
\* schema fetch, however many other ids were resolved in between; and a
\* lookup that fails leaves the cache unchanged.
C18_Cache_NeverEvicted ==
    Resolved =>
        /\ resolution.known =>
              /\ ~resolution.fetched
              /\ resolution.out = Return(DeclaredType(resolution.propertyId))
        /\ resolution.out.kind = "raise" => cache = resolution.cacheBefore

\* C18 amended: once getPropertyType has returned a datatype for a property
\* id, a later call for that id returns the same datatype without a schema
\* fetch provided fewer than 128 other distinct ids returned a datatype since
\* that id was last returned; after 128 others the entry has been evicted and
\* the call fetches again; and a lookup that fails leaves the cache unchanged.
C18_Cache ==
    Resolved =>
        /\ (resolution.known /\ resolution.propertyId = WatchedId) =>
              /\ resolution.others < 128 =>
                    /\ ~resolution.fetched
                    /\ resolution.out = Return(DeclaredType(resolution.propertyId))
              /\ resolution.others >= 128 => resolution.fetched
        /\ resolution.out.kind = "raise" => cache = resolution.cacheBefore

C18_Witness ==
    /\ Resolved
    /\ resolution.propertyId = WatchedId
    /\ resolution.known
    /\ resolution.others = 127
    /\ ~resolution.fetched
    /\ resolution.out = Return(S_wikibase_item)

-----------------------------------------------------------------------------
(* Properties of get_or_create_lexeme and create_lexeme *)

\* the search results that match lemma text, language and lexical category
Matching ==
    {i \in 1..Len(search) :
        /\ search[i].match.text = lexCall.lemma
        /\ search[i].match.language = lexCall.lang.short
        /\ lexicon[search[i].id].lexicalCategory = lexCall.catLex}

FirstMatching == CHOOSE i \in Matching : \A j \in Matching : i <= j

CreateRequests ==
    {i \in 1..Len(requests) :
        /\ requests[i].params.action = "wbeditentity"
        /\ requests[i].params.new = "lexeme"}

ReturnsLexeme(id) == lexOut.kind = "return" /\ lexOut.value.id = id

\* C19: get_or_create_lexeme always returns a Lexeme: the first search result
\* that matches lemma text, language and lexical category, with no create
\* request issued, if there is one; otherwise the lexeme created by exactly one
\* create request; and create_lexeme called without claims returns the
\* created lexeme.
C19_GetOrCreate ==
    lpc = "done" =>
        /\ lexCall.fn = "get_or_create_lexeme" =>
              IF Matching # {}
              THEN ReturnsLexeme(search[FirstMatching].id) /\ CreateRequests = {}
              ELSE ReturnsLexeme(NewLexemeId) /\ Cardinality(CreateRequests) = 1
        /\ (lexCall.fn = "create_lexeme" /\ lexCall.claims = NoClaims) =>
              ReturnsLexeme(NewLexemeId)

-----------------------------------------------------------------------------
(* Entity.addClaims *)

ListGiven == TypeOf(addArg) = "list"
ClaimsGiven == Val(addArg)
PostCreated(p) == Succeeds(p.R) /\ Has(p.R.text.json, "claim")
PostLagged(p) == p.R.status_code = 200 /\ IsMaxlag(p.R)
PostFailed(p) == ~PostCreated(p) /\ ~PostLagged(p)
AddClaimsEnded == epc = "done"

\* the request is the wbcreateclaim for the claim at its index of the list
CreatesItsClaim(p) ==
    /\ p.i \in 1..Len(ClaimsGiven)
    /\ p.params["action"] = "wbcreateclaim"
    /\ p.params["bot"] = "1"
    /\ p.params["format"] = "json"
    /\ p.params["entity"] = EntityId
    /\ p.params["property"] = ClaimsGiven[p.i].mainsnak.property
    /\ p.params["token"] = CSRF_TOKEN

\* C20: Entity.addClaims with a list of k claims issues wbcreateclaim POSTs,
\* one per claim in the order of the list, each with bot=1, format=json, the
\* entity id, the claim's property and the session's token in place of
\* "__AUTO__"; when a POST fails or its answer has no "claim" field the call
\* fails at once and no later POST is sent; every claim an answer reported
\* stays created, and no request other than wbcreateclaim is issued.
C20_AddClaims ==
    ListGiven =>
        /\ \A n \in 1..Len(posts) :
              /\ CreatesItsClaim(posts[n])
              /\ n = 1 => posts[n].i = 1
              /\ n > 1 => IF PostCreated(posts[n - 1]) THEN posts[n].i = posts[n - 1].i + 1
                          ELSE PostLagged(posts[n - 1]) /\ posts[n].i = posts[n - 1].i
        /\ Len(created) = Cardinality({n \in 1..Len(posts) : PostCreated(posts[n])})
        /\ AddClaimsEnded =>
              IF \E n \in 1..Len(posts) : PostFailed(posts[n])
              THEN entityOut.kind = "raise"
              ELSE CSRF_TOKEN # Unset =>
                      \A i \in 1..Len(ClaimsGiven) :
                          Cardinality({n \in 1..Len(posts) :
                                         posts[n].i = i /\ PostCreated(posts[n])}) = 1

-----------------------------------------------------------------------------
(* Entity.claims after addClaims *)

AddClaimsReturned == epc = "done" /\ ListGiven /\ entityOut.kind = "return"

\* the view lists the claim under its property
Listed(view, c) ==
    /\ Has(Val(view), c.mainsnak.property)
    /\ LET l == Val(Val(view)[c.mainsnak.property]) IN \E i \in 1..Len(l) : l[i] = c

\* C21: after addClaims has returned, reading Entity.claims does not fail and
\* gives a dict that lists, under its property, every claim the server
\* returned during the call, whatever claims the entity had before.
C21_ClaimsView ==
    AddClaimsReturned =>
        LET view == claims(entity) IN
        /\ view.kind = "return"
        /\ \A j \in 1..Len(created) : Listed(view.value, created[j])

-----------------------------------------------------------------------------
(* Entity.addClaims for a property of datatype external-id *)

ExternalIdProperties == {P \in DOMAIN Schema : getPropertyType(P) = Return(S_external_id)}
ExternalIds == {Str(<<"1", "1", "3">>), Str(<<"Q", "4", "2">>)}

\* the call has ended after exactly one request was answered without lag: a
\* wbcreateclaim for P whose value is the JSON text of s
PostedOnce(P, s) ==
    /\ AddClaimsEnded
    /\ \E n \in 1..Len(posts) :
          /\ ~PostLagged(posts[n])
          /\ \A m \in 1..Len(posts) : m # n => PostLagged(posts[m])
    /\ \A n \in 1..Len(posts) :
          /\ posts[n].params["action"] = "wbcreateclaim"
          /\ posts[n].params["property"] = P
          /\ posts[n].params["value"] = json_dumps(s)

\* the dict half: addClaims({P: [s]})
ExternalIdDict ==
    \A P \in ExternalIdProperties : \A s \in ExternalIds :
        (AddClaimsEnded /\ CSRF_TOKEN # Unset /\ addArg = Dict(P :> ListObj(<<s>>)))
            => PostedOnce(P, s)

\* the list half: Claim(propertyId=P, value=s) is built, and addClaims([it])
ExternalIdList ==
    \A P \in ExternalIdProperties : \A s \in ExternalIds :
        LET c == Claim(NoneObj, Str(P), s) IN
        /\ c.kind = "return"
        /\ (AddClaimsEnded /\ CSRF_TOKEN # Unset /\ addArg = ListObj(<<c.value>>))
              => PostedOnce(P, s)

\* C23: for a property P of datatype external-id and an id string s, both
\* addClaims({P: [s]}) and addClaims([Claim(propertyId=P, value=s)]) end
\* after exactly one wbcreateclaim request for P whose value parameter is the
\* JSON text of s; neither fails before the request is sent.
C23_ExternalId == ExternalIdDict /\ ExternalIdList

-----------------------------------------------------------------------------
(* Claim.__init__ *)

Constructed_Claim == claim # NoResult
DictGiven == TypeOf(argClaim) = "dict"
PropertyGiven == argPropertyId # NoneObj
ValueGiven == argValue # NoneObj

\* the native types of a datatype's values
ValidNative(datatype, v) ==
    \/ datatype \in EntityDatatypes \cup StringDatatypes /\ TypeOf(v) \in {"str", "dict"}
    \/ datatype \in {S_monolingualtext, S_globe_coordinate} /\ TypeOf(v) = "dict"
    \/ datatype = S_quantity /\ TypeOf(v) \in {"int", "float", "dict"}
    \/ datatype = S_time /\ TypeOf(v) \in {"datetime", "dict"}

InvalidCombination ==
    Raise("TypeError", <<"Claim() received an invalid combination of arguments">>)

\* C24: Claim(claim, propertyId, value) accepts a dict without propertyId and
\* value, which it copies, or no dict with a propertyId and a value, from
\* which it builds a detached claim of rank "normal" without id; it succeeds
\* for every property and every native value valid for the property's
\* datatype, 0 and 0.0 for a quantity included; every other combination
\* raises the constructor's TypeError, before any datatype is looked up.
C24_Constructor ==
    Constructed_Claim =>
        /\ (DictGiven /\ ~PropertyGiven /\ ~ValueGiven) => claim = Return(Val(argClaim))
        /\ (/\ argClaim = NoneObj /\ PropertyGiven /\ ValueGiven
            /\ Val(argPropertyId) \in DOMAIN Schema
            /\ ValidNative(Schema[Val(argPropertyId)], argValue)) =>
              /\ claim.kind = "return"
              /\ claim.value.mainsnak.property = Val(argPropertyId)
              /\ claim.value.rank = "normal"
              /\ ~Has(claim.value, "id")
        /\ (/\ ~(DictGiven /\ ~PropertyGiven /\ ~ValueGiven)
            /\ ~(argClaim = NoneObj /\ PropertyGiven /\ ValueGiven)) =>
              claim = InvalidCombination

-----------------------------------------------------------------------------
(* Lexeme.createSense, Lexeme.createForm *)

SubEntityEnded == spc = "done"
Creation(t) == t.params["action"] \in {"wbladdsense", "wbladdform"}
Lagged(t) == t.R.status_code = 200 /\ IsMaxlag(t.R)
Created(t) ==
    Succeeds(t.R) /\ Has(t.R.text.json, IF Creation(t) THEN AnswerKey(subCall) ELSE "claim")
CreationMade == \E n \in 1..Len(wire) : Creation(wire[n]) /\ Created(wire[n])
CreatedId ==
    LET n == CHOOSE m \in 1..Len(wire) : Creation(wire[m]) /\ Created(wire[m])
    IN  wire[n].R.text.json[AnswerKey(subCall)]["id"]
ClaimsCreated == Cardinality({n \in 1..Len(wire) : ~Creation(wire[n]) /\ Created(wire[n])})

\* the claims given: none when the argument is absent or empty
GivenItems ==
    IF subCall.claims = NoneObj THEN <<>>
    ELSE IF TypeOf(subCall.claims) = "list" THEN Val(subCall.claims)
    ELSE Pairs(Val(subCall.claims))

\* a claim the codec can send: not of an external-id property, and a dict
\* entry names an entity property and a well-formed entity id
Sendable(x) ==
    /\ ItemProperty(x) \in DOMAIN Schema
    /\ Schema[ItemProperty(x)] # S_external_id
    /\ ~IsClaim(x) =>
          /\ Schema[ItemProperty(x)] \in EntityDatatypes
          /\ Len(Val(x.idStr)) > 1
          /\ Head(Val(x.idStr)) \in {"Q", "P", "L"}
          /\ IsDigits(Tail(Val(x.idStr)))

NothingFailed ==
    /\ CSRF_TOKEN # Unset
    /\ \A n \in 1..Len(wire) : Lagged(wire[n]) \/ Created(wire[n])
    /\ \A i \in 1..Len(GivenItems) : Sendable(GivenItems[i])

OtherListKey == IF subCall.fn = "createSense" THEN "forms" ELSE "senses"

\* the local list is the one before the call with one new entry, of this id
AppendedOnce(id) ==
    LET l == Val(local[ListKey(subCall)]) IN
    /\ Len(l) > 0
    /\ Val(l[Len(l)])["id"] = id
    /\ \E before \in LocalLexemes :
          /\ Val(before[ListKey(subCall)]) = SubSeq(l, 1, Len(l) - 1)
          /\ before[OtherListKey] = local[OtherListKey]

\* C22: createSense and createForm issue one creation request (wbladdsense,
\* wbladdform) before anything else, then add the given claims to the new
\* sense or form (none when claims is absent or empty), then append it to the
\* local list once and return the id of the creation answer; when nothing
\* fails the call returns; when it fails after the creation, the sense or
\* form stays created on the server and the local lists are as before.
C22_CreateSubEntity ==
    /\ \A n \in 1..Len(wire) :
          Creation(wire[n]) =>
              /\ wire[n].params["action"] =
                    (IF subCall.fn = "createSense" THEN "wbladdsense" ELSE "wbladdform")
              /\ \A m \in 1..(n - 1) : Creation(wire[m]) /\ Lagged(wire[m])
    /\ Len(GivenItems) = 0 => \A n \in 1..Len(wire) : Creation(wire[n])
    /\ SubEntityEnded =>
          /\ subOut.kind = "return" =>
                /\ CreationMade
                /\ subOut.value = CreatedId
                /\ AppendedOnce(CreatedId)
                /\ ClaimsCreated = Len(GivenItems)
          /\ subOut.kind = "raise" =>
                /\ local \in LocalLexemes
                /\ CreationMade => remote = <<CreatedId>>
          /\ NothingFailed => subOut.kind = "return"
====
